---- MODULE Spec2Model ----
(***************************************************************************)
(* Highlight-clip pipeline of daglo-mcp (tools/video.ts and its variants). *)
(*                                                                         *)
(* Conventions                                                             *)
(*  - a string is a sequence of one-character strings, <<"a", " ", ".">>   *)
(*    and a character outside ASCII is named by its code point, "u3002"   *)
(*  - a list is a sequence; the code's 0-based index i is i + 1 here       *)
(*  - a time is an integer number of ticks; TicksPerSecond ticks make one  *)
(*    second, chosen so that the per-character division of                 *)
(*    splitTokenByMaxChars is exact on every token the model draws         *)
(*  - targetDurationMinutes is the rational num/den minutes                *)
(***************************************************************************)
EXTENDS Integers, Sequences, FiniteSets, TLC

VARIABLES
    segments,               \* selectHighlightSegments: its argument `segments`
    targetDurationMinutes,  \* selectHighlightSegments: its argument, [num, den]
    keywords,               \* selectHighlightSegments: its argument `keywords`
    window,                 \* what part_004's selectHighlightSegments returned
    windowSlice,            \* what video.ts's selectHighlightSegments returned
    calls,                  \* invocations of part_004's selector so far
    script,                 \* extractSegmentsFromScript: its argument `script`
    punctSegments,          \* what part_004's extractSegmentsFromScript returned
    karaokeSegments,        \* what karaoke.ts's splitTokensByPunctuation returned
    paragraphSegments,      \* what video.ts's extractSegmentsFromScript returned
    node,                   \* collectKaraokeTokens: its argument `node`
    collected,              \* collectKaraokeTokens: its argument `tokens` after the call
    selectedSegments,       \* generateSrt: its argument `segments`
    clipStartTime,          \* generateSrt: its argument `clipStartTime`
    maxSegmentChars,        \* generateSrt: its argument `maxSegmentChars`
    constrainedSegments,    \* generateSrt: what splitSegmentsByMaxChars returned
    srtContent,             \* what part_004's generateSrt returned, as its list of cues
    srtContentPlain,        \* what video.ts's generateSrt returned, as its list of cues
    subtitleText,           \* wrapSubtitleText: its argument `text`
    maxLineLength,          \* wrapSubtitleText: its argument `maxLineLength`
    wrapped,                \* what wrapSubtitleText returned, as its list of lines
    wrapCall,               \* wrapSubtitleText: the call as it runs, step by step
    pc,                     \* the handler: where each invocation stands
    args,                   \* the handler: the arguments of each invocation
    local,                  \* the handler: the local variables of each invocation
    result,                 \* the handler: what each invocation returned or threw
    disk,                   \* the output directory and the files in it
    toolRuns,               \* runs of each external tool, by invocation
    created,                \* what each invocation has created or written on disk
    fetched,                \* the responses each invocation has received, in order
    world                   \* the collaborators: answering anything, or dependable

selectVars == <<segments, targetDurationMinutes, keywords, window, windowSlice, calls>>

punctVars == <<script, punctSegments, karaokeSegments, paragraphSegments, node, collected>>

srtVars ==
    <<selectedSegments, clipStartTime, maxSegmentChars, constrainedSegments,
      srtContent, srtContentPlain>>

wrapVars == <<subtitleText, maxLineLength, wrapped, wrapCall>>

pipeVars == <<pc, args, local, result, disk, toolRuns, created, fetched, world>>

vars == <<selectVars, punctVars, srtVars, wrapVars, pipeVars>>

\* a result not yet returned, and a returned list
None == [none |-> TRUE]
Returned(list) == [list |-> list]

\* each component before it is given anything
IdleSelect ==
    /\ segments = <<>>
    /\ targetDurationMinutes = [num |-> 0, den |-> 1]
    /\ keywords = <<>>
    /\ window = None
    /\ windowSlice = None
    /\ calls = 0

IdleCollect ==
    /\ node = [t |-> "undefined"]
    /\ collected = None

IdlePunct ==
    /\ script = [paragraphs |-> <<>>]
    /\ punctSegments = None
    /\ karaokeSegments = None
    /\ paragraphSegments = None
    /\ IdleCollect

IdleSrt ==
    /\ selectedSegments = <<>>
    /\ clipStartTime = 0
    /\ maxSegmentChars = 1
    /\ constrainedSegments = None
    /\ srtContent = None
    /\ srtContentPlain = None

IdleWrap ==
    /\ subtitleText = <<>>
    /\ maxLineLength = 1
    /\ wrapped = None
    /\ wrapCall = None

IdlePipe ==
    /\ pc = <<>>
    /\ args = <<>>
    /\ local = <<>>
    /\ result = <<>>
    /\ disk = <<>>
    /\ toolRuns = <<>>
    /\ created = <<>>
    /\ fetched = <<>>
    /\ world = "none"

-----------------------------------------------------------------------------
(* Bounds of the model *)

MaxSegs == 3        \* segments of a transcript handed to the selector
MaxDurSeconds == 1  \* duration of a drawn segment, in seconds
MaxTarget == 2      \* target duration, in sixtieths of a minute
MaxCalls == 2       \* invocations of the selector on one transcript
MaxNodes == 3       \* child nodes of a script's paragraphs, all together
MaxSrtTokens == 3   \* tokens of a segment handed to generateSrt
MaxChars == 3       \* subtitleMaxLineLength handed to generateSrt
MaxTextLen == 6     \* characters of a text handed to wrapSubtitleText
MaxLine == 3        \* maxLineLength handed to wrapSubtitleText
MaxPages == 2       \* pages of a transcript, as its first page declares them

-----------------------------------------------------------------------------
(* Generic helpers *)

Max(a, b) == IF a >= b THEN a ELSE b
Min(a, b) == IF a <= b THEN a ELSE b

RECURSIVE Gcd(_, _)
Gcd(a, b) == IF b = 0 THEN a ELSE Gcd(b, a % b)

RECURSIVE LcmUpTo(_)
LcmUpTo(n) == IF n <= 1 THEN 1 ELSE LET l == LcmUpTo(n - 1) IN (l * n) \div Gcd(l, n)

RECURSIVE Concat(_)
Concat(ss) == IF ss = <<>> THEN <<>> ELSE Head(ss) \o Concat(Tail(ss))

RECURSIVE SumSeq(_)
SumSeq(s) == IF s = <<>> THEN 0 ELSE Head(s) + SumSeq(Tail(s))

\* String.prototype.toLowerCase on the model's alphabet; "u212A" is the
\* Kelvin sign, whose lower case is the letter k
Lower(c) ==
    CASE c = "A" -> "a"
      [] c = "K" -> "k"
      [] c = "u212A" -> "k"
      [] OTHER -> c

LowerStr(s) == [i \in 1..Len(s) |-> Lower(s[i])]

\* the characters \\s matches, on the model's alphabet
IsSpace(c) == c \in {" ", "\t"}

RECURSIVE TrimStart(_)
TrimStart(s) == IF s # <<>> /\ IsSpace(Head(s)) THEN TrimStart(Tail(s)) ELSE s

RECURSIVE TrimEnd(_)
TrimEnd(s) ==
    IF s # <<>> /\ IsSpace(s[Len(s)]) THEN TrimEnd(SubSeq(s, 1, Len(s) - 1)) ELSE s

\* String.prototype.trim
Trim(s) == TrimEnd(TrimStart(s))

\* a value that is null until it is assigned
Null == [null |-> TRUE]
Num(v) == [value |-> v]

-----------------------------------------------------------------------------
(* Keyword scorer *)

\* the characters escapeRegExp puts a backslash in front of
RegexMeta == { ".", "*", "+", "?", "^", "$", "{", "}", "(", ")", "|", "[", "]", "\\" }

escapeRegExp(value) ==
    Concat([i \in 1..Len(value) |->
              IF value[i] \in RegexMeta THEN <<"\\", value[i]>> ELSE <<value[i]>>])

\* new RegExp(source): the pattern as a list of atoms.  A backslash makes the
\* next character a literal, an unescaped "." matches any character, and any
\* other character is a literal ("." is the only character of RegexMeta in
\* the keywords the model draws).
RECURSIVE RegExpAtoms(_)
RegExpAtoms(source) ==
    IF source = <<>> THEN <<>>
    ELSE IF Head(source) = "\\" /\ Len(source) >= 2
         THEN << [kind |-> "char", char |-> source[2]] >>
                 \o RegExpAtoms(SubSeq(source, 3, Len(source)))
    ELSE IF Head(source) = "."
         THEN << [kind |-> "any", char |-> "."] >> \o RegExpAtoms(Tail(source))
    ELSE << [kind |-> "char", char |-> Head(source)] >> \o RegExpAtoms(Tail(source))

\* Canonicalize of the "i" flag without the "u" flag: the upper case of the
\* character when that is one character (the Kelvin sign is its own upper case)
Canonicalize(c) ==
    CASE c = "a" -> "A"
      [] c = "k" -> "K"
      [] c = "q" -> "Q"
      [] c = "x" -> "X"
      [] OTHER -> c

AtomMatches(atom, c) ==
    atom.kind = "any" \/ Canonicalize(atom.char) = Canonicalize(c)

AtomsMatchAt(text, atoms, i) ==
    /\ i + Len(atoms) - 1 <= Len(text)
    /\ \A j \in 1..Len(atoms) : AtomMatches(atoms[j], text[i + j - 1])

\* The number of matches of new RegExp(escapeRegExp(keyword), "gi") in text:
\* the scan is left to right, a match consumes its characters, and the empty
\* pattern matches at every position.
RECURSIVE ScanMatches(_, _, _)
ScanMatches(text, atoms, i) ==
    IF i + Len(atoms) - 1 > Len(text) THEN 0
    ELSE IF AtomsMatchAt(text, atoms, i)
         THEN 1 + ScanMatches(text, atoms, i + Len(atoms))
         ELSE ScanMatches(text, atoms, i + 1)

CountMatches(text, kw) ==
    LET atoms == RegExpAtoms(escapeRegExp(kw))
    IN IF atoms = <<>> THEN Len(text) + 1 ELSE ScanMatches(text, atoms, 1)

normalizedKeywords(kws) == [i \in 1..Len(kws) |-> LowerStr(kws[i])]

Score(segment, kws) ==
    SumSeq([k \in 1..Len(kws) |-> CountMatches(segment.text, normalizedKeywords(kws)[k])])

Duration(segment) == segment.endTime - segment.startTime

\* density = duration > 0 ? score / duration : 0, kept as the fraction num/den
\* Density with the test duration !== 0 in the place of duration > 0
DensitySigned(segment, score) ==
    IF Duration(segment) > 0
    THEN [num |-> score, den |-> Duration(segment)]
    ELSE IF Duration(segment) < 0
    THEN [num |-> 0 - score, den |-> 0 - Duration(segment)]
    ELSE [num |-> 0, den |-> 1]

Density(segment, score) ==
    IF Duration(segment) > 0
    THEN [num |-> score, den |-> Duration(segment)]
    ELSE [num |-> 0, den |-> 1]

\* { segment, index, score, density }
Scored(segment, index, score) ==
    [segment |-> segment, index |-> index,
     score |-> score, density |-> Density(segment, score)]

scoredSegments(segs, kws) ==
    [i \in 1..Len(segs) |-> Scored(segs[i], i, Score(segs[i], kws))]

\* SortsBefore with the later index winning a tie
SortsBeforeLaterIndex(a, b) ==
    LET da == a.density.num * b.density.den
        db == b.density.num * a.density.den
    IN IF db # da THEN da > db
       ELSE IF b.score # a.score THEN a.score > b.score
       ELSE a.index > b.index

\* SortsBefore with the density comparison left out
SortsBeforeScoreFirst(a, b) ==
    IF b.score # a.score THEN a.score > b.score ELSE a.index < b.index

\* The comparator of scoredSegments.sort: TRUE when a sorts before b.
SortsBefore(a, b) ==
    LET da == a.density.num * b.density.den
        db == b.density.num * a.density.den
    IN IF db # da THEN da > db
       ELSE IF b.score # a.score THEN a.score > b.score
       ELSE a.index < b.index

\* Array.prototype.sort with that comparator (insertion into a sorted list)
RECURSIVE InsertSorted(_, _)
InsertSorted(x, sorted) ==
    IF sorted = <<>> THEN <<x>>
    ELSE IF SortsBefore(x, Head(sorted)) THEN <<x>> \o sorted
    ELSE <<Head(sorted)>> \o InsertSorted(x, Tail(sorted))

RECURSIVE SortScored(_)
SortScored(scored) ==
    IF scored = <<>> THEN <<>>
    ELSE InsertSorted(Head(scored), SortScored(Tail(scored)))

-----------------------------------------------------------------------------
(* Window selector *)

targetDurationSeconds(target) == (target.num * 60) \div target.den

\* One pass of the while loop: the left attempt, then the right attempt.
\* g = [selected, total, leftIndex, rightIndex, added]
\* GrowLeft with push in the place of unshift
GrowLeftPush(segs, budget, g) ==
    IF g.leftIndex >= 1 /\ g.total + Duration(segs[g.leftIndex]) <= budget
    THEN [g EXCEPT !.selected = Append(g.selected, segs[g.leftIndex]),
                   !.total = g.total + Duration(segs[g.leftIndex]),
                   !.leftIndex = g.leftIndex - 1,
                   !.added = TRUE]
    ELSE g

GrowLeft(segs, budget, g) ==
    IF g.leftIndex >= 1 /\ g.total + Duration(segs[g.leftIndex]) <= budget
    THEN [g EXCEPT !.selected = <<segs[g.leftIndex]>> \o g.selected,
                   !.total = g.total + Duration(segs[g.leftIndex]),
                   !.leftIndex = g.leftIndex - 1,
                   !.added = TRUE]
    ELSE g

GrowRight(segs, budget, g) ==
    IF /\ g.rightIndex <= Len(segs)
       /\ g.total < budget
       /\ g.total + Duration(segs[g.rightIndex]) <= budget
    THEN [g EXCEPT !.selected = Append(g.selected, segs[g.rightIndex]),
                   !.total = g.total + Duration(segs[g.rightIndex]),
                   !.rightIndex = g.rightIndex + 1,
                   !.added = TRUE]
    ELSE g

RECURSIVE GrowLoop(_, _, _)
GrowLoop(segs, budget, g) ==
    IF ~(g.total < budget /\ (g.leftIndex >= 1 \/ g.rightIndex <= Len(segs)))
    THEN g
    ELSE LET g2 == GrowRight(segs, budget,
                       GrowLeft(segs, budget, [g EXCEPT !.added = FALSE]))
         IN IF ~g2.added THEN g2 ELSE GrowLoop(segs, budget, g2)

\* The window grown around segs[centerIndex].  seed, first, last and total
\* are bookkeeping of the model: the indices the loop ended with.
GrowWindow(segs, budget, centerIndex, path) ==
    LET g == GrowLoop(segs, budget,
                 [selected |-> <<segs[centerIndex]>>,
                  total |-> Duration(segs[centerIndex]),
                  leftIndex |-> centerIndex - 1,
                  rightIndex |-> centerIndex + 1,
                  added |-> FALSE])
        startTime == IF Len(g.selected) > 0 THEN g.selected[1].startTime ELSE 0
    IN [segments |-> g.selected,
        startTime |-> startTime,
        endTime |-> IF Len(g.selected) > 0
                    THEN g.selected[Len(g.selected)].endTime ELSE startTime,
        path |-> path, seed |-> centerIndex,
        first |-> g.leftIndex + 1, last |-> g.rightIndex - 1, total |-> g.total]

\* Math.floor(segments.length / 2), as a 1-based index
Midpoint(segs) == (Len(segs) \div 2) + 1

EmptyWindow ==
    [segments |-> <<>>, startTime |-> 0, endTime |-> 0,
     path |-> "empty", seed |-> 0, first |-> 1, last |-> 0, total |-> 0]

\* part_004: the fallback grows outward from the midpoint
selectHighlightSegments(segs, target, kws) ==
    IF Len(segs) = 0 THEN EmptyWindow
    ELSE LET sorted == SortScored(scoredSegments(segs, kws))
             budget == targetDurationSeconds(target)
         IN IF Len(sorted) = 0 \/ sorted[1].score = 0
            THEN GrowWindow(segs, budget, Midpoint(segs), "fallback")
            ELSE GrowWindow(segs, budget, sorted[1].index, "primary")

\* video.ts, fallback: slice [midpoint - 10, midpoint + 10), then keep the
\* longest prefix of the slice that fits the budget (at least one segment).
RECURSIVE TrimToBudget(_, _, _, _)
TrimToBudget(selected, budget, accumulated, final) ==
    IF selected = <<>> THEN final
    ELSE IF accumulated + Duration(Head(selected)) > budget THEN final
    ELSE TrimToBudget(Tail(selected), budget,
                      accumulated + Duration(Head(selected)),
                      Append(final, Head(selected)))

SliceFallback(segs, budget) ==
    LET midpoint == Len(segs) \div 2              \* 0-based, as in the code
        startIdx == Max(0, midpoint - 10)
        endIdx == Min(Len(segs), midpoint + 10)
        selected == SubSeq(segs, startIdx + 1, endIdx)
        trimmed == TrimToBudget(selected, budget, 0, <<>>)
        final == IF Len(trimmed) = 0 /\ Len(selected) > 0
                 THEN <<selected[1]>> ELSE trimmed
        startTime == IF Len(final) > 0 THEN final[1].startTime ELSE 0
    IN [segments |-> final,
        startTime |-> startTime,
        endTime |-> IF Len(final) > 0 THEN final[Len(final)].endTime ELSE startTime,
        path |-> "fallback", seed |-> midpoint + 1,
        first |-> startIdx + 1, last |-> startIdx + Len(final),
        total |-> SumSeq([i \in 1..Len(final) |-> Duration(final[i])])]

selectHighlightSegmentsSlice(segs, target, kws) ==
    IF Len(segs) = 0 THEN EmptyWindow
    ELSE LET sorted == SortScored(scoredSegments(segs, kws))
             budget == targetDurationSeconds(target)
         IN IF Len(sorted) = 0 \/ sorted[1].score = 0
            THEN SliceFallback(segs, budget)
            ELSE GrowWindow(segs, budget, sorted[1].index, "primary")

\* The caller's array after a call: scoring maps it into a new array, the
\* sort orders that new array, and the window is built in a third one.
\* SegmentsAfterSelect had the sort been applied to the caller's array
SegmentsAfterSelectSortedInPlace(segs) ==
    LET sorted == SortScored(scoredSegments(segs, keywords))
    IN [i \in 1..Len(segs) |-> sorted[i].segment]

SegmentsAfterSelect(segs) == segs

-----------------------------------------------------------------------------
(* Transcripts handed to the selector *)

SelectTexts == { <<"x">>, <<"a">>, <<"A", "a">> }

KeywordLists == { << <<"a">> >>, << <<"A", "a">>, <<"q">> >> }

\* A transcript of n segments: segment i has text texts[i] and lasts durs[i]
\* seconds; consecutive segments are gap seconds apart.
RECURSIVE StartOf(_, _, _)
StartOf(durs, gap, i) ==
    IF i = 1 THEN 0 ELSE StartOf(durs, gap, i - 1) + durs[i - 1] + gap

MakeSegment(text, startTime, endTime) ==
    [text |-> text, startTime |-> startTime, endTime |-> endTime,
     tokens |-> << [text |-> text, startTime |-> startTime, endTime |-> endTime] >>]

Transcript(texts, durs, gap) ==
    [i \in 1..Len(texts) |->
        MakeSegment(texts[i], StartOf(durs, gap, i), StartOf(durs, gap, i) + durs[i])]

Transcripts ==
    UNION { { Transcript(texts, durs, gap) :
                texts \in [1..n -> SelectTexts],
                durs \in [1..n -> 0..MaxDurSeconds],
                gap \in {0, 1} } : n \in 0..MaxSegs }

\* Section 8 of the design: ten back-to-back one-second segments
TenOneSecondSegments(text) ==
    Transcript([i \in 1..10 |-> text], [i \in 1..10 |-> 1], 0)

Targets == { [num |-> k, den |-> 60] : k \in 0..MaxTarget }

\* one-segment transcripts and keyword lists that exercise the matching:
\* a keyword that overlaps itself, a regex metacharacter, the empty keyword,
\* the same keyword in two cases, and a character whose lower case is
\* another letter
ScoringTexts ==
    { <<"a", "a", "a">>, <<"a", ".", "a">>, <<"K">>, <<"u212A">> }

ScoringKeywordLists ==
    { << <<"a", "a">> >>, << <<".">> >>, << <<>> >>, << <<"k">>, <<"K">> >>,
      << <<"u212A">> >> }

SelectInputs ==
    /\ \/ /\ segments \in Transcripts
          /\ targetDurationMinutes \in Targets
          /\ keywords \in KeywordLists
       \/ /\ segments \in { TenOneSecondSegments(<<"x">>), TenOneSecondSegments(<<"a">>) }
          /\ targetDurationMinutes = [num |-> 1, den |-> 30]
          /\ keywords \in KeywordLists
       \/ /\ segments \in { Transcript(<<t>>, <<1>>, 0) : t \in ScoringTexts }
          /\ targetDurationMinutes = [num |-> 1, den |-> 60]
          /\ keywords \in ScoringKeywordLists
    /\ window = None
    /\ windowSlice = None
    /\ calls = 0

\* one invocation of part_004's selectHighlightSegments
SelectHighlight ==
    /\ calls < MaxCalls
    /\ window' = selectHighlightSegments(segments, targetDurationMinutes, keywords)
    /\ segments' = SegmentsAfterSelect(segments)
    /\ calls' = calls + 1
    /\ UNCHANGED <<targetDurationMinutes, keywords, windowSlice>>
    /\ UNCHANGED <<punctVars, srtVars, wrapVars, pipeVars>>

\* one invocation of video.ts's selectHighlightSegments
SelectHighlightSlice ==
    /\ windowSlice = None
    /\ windowSlice' = selectHighlightSegmentsSlice(segments, targetDurationMinutes, keywords)
    /\ segments' = SegmentsAfterSelect(segments)
    /\ UNCHANGED <<targetDurationMinutes, keywords, window, calls>>
    /\ UNCHANGED <<punctVars, srtVars, wrapVars, pipeVars>>

InitSelect == SelectInputs /\ IdlePunct /\ IdleSrt /\ IdleWrap /\ IdlePipe

NextSelect == SelectHighlight

SpecSelect == InitSelect /\ [][NextSelect]_vars

NextSelectSlice == SelectHighlightSlice

SpecSelectSlice == InitSelect /\ [][NextSelectSlice]_vars

\* transcripts whose segments may end before they start, handed to both
\* selectors
SignedTranscripts ==
    UNION { { Transcript(texts, durs, 0) :
                texts \in [1..n -> SelectTexts],
                durs \in [1..n -> {-1, 0, 1}] } : n \in 0..MaxSegs }

InitSelectBoth ==
    /\ segments \in SignedTranscripts
    /\ targetDurationMinutes = [num |-> 1, den |-> 60]
    /\ keywords \in KeywordLists
    /\ window = None
    /\ windowSlice = None
    /\ calls = 0
    /\ IdlePunct /\ IdleSrt /\ IdleWrap /\ IdlePipe

NextSelectBoth == SelectHighlight \/ SelectHighlightSlice

SpecSelectBoth == InitSelectBoth /\ [][NextSelectBoth]_vars

-----------------------------------------------------------------------------
(* Segment builders: punctuation-scoped splitting *)

\* the classes of part_004 ( ? . ! and their full-width forms U+3002, U+FF01,
\* U+FF1F ) and of karaoke.ts ( ? . ! )
TerminalPunctuation == { "?", ".", "!", "u3002", "uFF01", "uFF1F" }
TerminalPunctuationAscii == { "?", ".", "!" }

RegexTest(class, text) == \E i \in 1..Len(text) : text[i] \in class

\* part_004, lines 27-39: the karaoke children of every paragraph, in order
RECURSIVE KaraokeChildren(_)
KaraokeChildren(children) ==
    IF children = <<>> THEN <<>>
    ELSE LET child == Head(children)
         IN (IF child.type = "karaoke"
             THEN << [text |-> child.text, startTime |-> child.s, endTime |-> child.e] >>
             ELSE <<>>) \o KaraokeChildren(Tail(children))

ScriptTokens(scr) ==
    Concat([p \in 1..Len(scr.paragraphs) |-> KaraokeChildren(scr.paragraphs[p])])

\* the texts of a run of tokens, concatenated
TokenTexts(toks) == Concat([i \in 1..Len(toks) |-> toks[i].text])

EmptyAccumulator ==
    [out |-> <<>>, currentTokens |-> <<>>, currentText |-> <<>>,
     startTime |-> Null, endTime |-> Null]

\* part_004, lines 47-69: one iteration of the loop over the tokens
PunctuationStep(acc, token) ==
    LET startTime == IF acc.startTime = Null THEN Num(token.startTime) ELSE acc.startTime
        endTime == Num(token.endTime)
        currentTokens == Append(acc.currentTokens, token)
        currentText == acc.currentText \o token.text
    IN IF RegexTest(TerminalPunctuation, token.text)
       THEN [EmptyAccumulator EXCEPT !.out =
                IF startTime # Null /\ endTime # Null
                THEN Append(acc.out, [text |-> Trim(currentText),
                                      startTime |-> startTime.value,
                                      endTime |-> endTime.value,
                                      tokens |-> currentTokens])
                ELSE acc.out]
       ELSE [out |-> acc.out, currentTokens |-> currentTokens,
             currentText |-> currentText, startTime |-> startTime, endTime |-> endTime]

RECURSIVE PunctuationLoop(_, _)
PunctuationLoop(acc, toks) ==
    IF toks = <<>> THEN acc
    ELSE PunctuationLoop(PunctuationStep(acc, Head(toks)), Tail(toks))

\* FlushTail without the push: the partial segment at the end is lost
FlushTailDropped(acc) == acc.out

\* part_004, lines 71-80: the final partial segment
FlushTail(acc) ==
    IF Len(Trim(acc.currentText)) > 0 /\ acc.startTime # Null /\ acc.endTime # Null
    THEN Append(acc.out, [text |-> Trim(acc.currentText),
                          startTime |-> acc.startTime.value,
                          endTime |-> acc.endTime.value,
                          tokens |-> acc.currentTokens])
    ELSE acc.out

extractSegmentsFromScript(scr) ==
    FlushTail(PunctuationLoop(EmptyAccumulator, ScriptTokens(scr)))

EmptyKaraokeAccumulator ==
    [out |-> <<>>, currentText |-> <<>>, startTime |-> Null, endTime |-> Null]

\* karaoke.ts, lines 76-93: one iteration of tokens.forEach
KaraokeStep(acc, token) ==
    LET startTime == IF acc.startTime = Null THEN Num(token.startTime) ELSE acc.startTime
        endTime == Num(token.endTime)
        currentText == acc.currentText \o token.text
    IN IF RegexTest(TerminalPunctuationAscii, token.text)
       THEN [EmptyKaraokeAccumulator EXCEPT !.out =
                Append(acc.out, [text |-> Trim(currentText),
                                 startTime |-> startTime.value,
                                 endTime |-> IF endTime # Null THEN endTime.value
                                             ELSE token.endTime])]
       ELSE [out |-> acc.out, currentText |-> currentText,
             startTime |-> startTime, endTime |-> endTime]

RECURSIVE KaraokeLoop(_, _)
KaraokeLoop(acc, toks) ==
    IF toks = <<>> THEN acc
    ELSE KaraokeLoop(KaraokeStep(acc, Head(toks)), Tail(toks))

\* karaoke.ts, lines 70-104
splitTokensByPunctuation(toks) ==
    LET acc == KaraokeLoop(EmptyKaraokeAccumulator, toks)
    IN IF Len(Trim(acc.currentText)) > 0 /\ acc.startTime # Null /\ acc.endTime # Null
       THEN Append(acc.out, [text |-> Trim(acc.currentText),
                             startTime |-> acc.startTime.value,
                             endTime |-> acc.endTime.value])
       ELSE acc.out

\* video.ts, lines 35-43: one iteration of the loop over the children of a
\* paragraph; minTime and maxTime are Null while they are +-Infinity
ParagraphStep(acc, child) ==
    IF child.type = "karaoke"
    THEN [tokens |-> Append(acc.tokens,
                        [text |-> child.text, startTime |-> child.s, endTime |-> child.e]),
          text |-> acc.text \o child.text,
          minTime |-> IF acc.minTime = Null \/ child.s < acc.minTime.value
                      THEN Num(child.s) ELSE acc.minTime,
          maxTime |-> IF acc.maxTime = Null \/ child.e > acc.maxTime.value
                      THEN Num(child.e) ELSE acc.maxTime]
    ELSE acc

RECURSIVE ParagraphLoop(_, _)
ParagraphLoop(acc, children) ==
    IF children = <<>> THEN acc
    ELSE ParagraphLoop(ParagraphStep(acc, Head(children)), Tail(children))

\* video.ts, lines 27-52: the segment of one paragraph, if it has a word unit
ParagraphSegment(children) ==
    LET acc == ParagraphLoop([tokens |-> <<>>, text |-> <<>>,
                              minTime |-> Null, maxTime |-> Null], children)
    IN IF Len(acc.tokens) > 0 /\ acc.minTime # Null /\ acc.maxTime # Null
       THEN << [text |-> Trim(acc.text), startTime |-> acc.minTime.value,
                endTime |-> acc.maxTime.value, tokens |-> acc.tokens] >>
       ELSE <<>>

\* video.ts, lines 19-55: the paragraph-scoped builder
extractSegmentsFromScriptParagraphs(scr) ==
    Concat([p \in 1..Len(scr.paragraphs) |-> ParagraphSegment(scr.paragraphs[p])])

-----------------------------------------------------------------------------
(* Scripts handed to the segment builders *)

NodeTexts == { <<"a">>, <<" ">>, <<" ", "a">>, <<"a", ".">>, <<"a", "u3002">> }

\* The children a paragraph may hold: word units, and one node of another type
NodeKinds ==
    { [type |-> "karaoke", text |-> t, dur |-> d] : t \in NodeTexts, d \in {0, 1} }
        \cup { [type |-> "linebreak", text |-> <<>>, dur |-> 0] }

RECURSIVE NodeStart(_, _)
NodeStart(kinds, i) == IF i = 1 THEN 0 ELSE NodeStart(kinds, i - 1) + kinds[i - 1].dur

Nodes(kinds) ==
    [i \in 1..Len(kinds) |->
        [type |-> kinds[i].type, text |-> kinds[i].text,
         s |-> NodeStart(kinds, i), e |-> NodeStart(kinds, i) + kinds[i].dur]]

\* a script of two paragraphs: the first holds the first k nodes
Script(kinds, k) ==
    [paragraphs |-> << SubSeq(Nodes(kinds), 1, k),
                       SubSeq(Nodes(kinds), k + 1, Len(kinds)) >>]

InitPunct ==
    /\ \E n \in 0..MaxNodes : \E kinds \in [1..n -> NodeKinds] : \E k \in 0..n :
            script = Script(kinds, k)
    /\ punctSegments = None
    /\ karaokeSegments = None
    /\ paragraphSegments = None
    /\ IdleCollect
    /\ IdleSelect /\ IdleSrt /\ IdleWrap /\ IdlePipe

\* part_004: scripts.flatMap((script) => extractSegmentsFromScript(script))
ExtractSegments ==
    /\ punctSegments = None
    /\ punctSegments' = Returned(extractSegmentsFromScript(script))
    /\ UNCHANGED <<script, karaokeSegments, paragraphSegments, node, collected>>
    /\ UNCHANGED <<selectVars, srtVars, wrapVars, pipeVars>>

\* karaoke.ts: splitTokensByPunctuation over the word units of the script
SplitTokens ==
    /\ karaokeSegments = None
    /\ karaokeSegments' = Returned(splitTokensByPunctuation(ScriptTokens(script)))
    /\ UNCHANGED <<script, punctSegments, paragraphSegments, node, collected>>
    /\ UNCHANGED <<selectVars, srtVars, wrapVars, pipeVars>>

\* video.ts: extractSegmentsFromScript(script)
ExtractParagraphs ==
    /\ paragraphSegments = None
    /\ paragraphSegments' = Returned(extractSegmentsFromScriptParagraphs(script))
    /\ UNCHANGED <<script, punctSegments, karaokeSegments, node, collected>>
    /\ UNCHANGED <<selectVars, srtVars, wrapVars, pipeVars>>

NextPunct == ExtractSegments \/ SplitTokens

\* word units whose times come in any order: each lasts from 0 to 1 or from
\* 2 to 3, whatever its place in the script
TimedNodes ==
    { [type |-> "karaoke", text |-> t, s |-> span[1], e |-> span[2]] :
        t \in { <<"a">>, <<" ">>, <<"a", ".">> }, span \in { <<0, 1>>, <<2, 3>> } }
        \cup { [type |-> "linebreak", text |-> <<>>, s |-> 0, e |-> 0] }

InitBuilders ==
    /\ \E n \in 0..MaxNodes : \E nodes \in [1..n -> TimedNodes] : \E k \in 0..n :
            script = [paragraphs |-> << SubSeq(nodes, 1, k), SubSeq(nodes, k + 1, n) >>]
    /\ punctSegments = None
    /\ karaokeSegments = None
    /\ paragraphSegments = None
    /\ IdleCollect
    /\ IdleSelect /\ IdleSrt /\ IdleWrap /\ IdlePipe

NextBuilders == ExtractSegments \/ SplitTokens \/ ExtractParagraphs

SpecBuilders == InitBuilders /\ [][NextBuilders]_vars

SpecPunct == InitPunct /\ [][NextPunct]_vars

-----------------------------------------------------------------------------
(* Subtitle synthesizer *)

\* splitLongWord, for maxLength >= 1
RECURSIVE splitLongWord(_, _)
splitLongWord(word, maxLength) ==
    IF Len(word) > maxLength
    THEN <<SubSeq(word, 1, maxLength)>>
             \o splitLongWord(SubSeq(word, maxLength + 1, Len(word)), maxLength)
    ELSE IF Len(word) > 0 THEN <<word>> ELSE <<>>

\* text.replace(/\s+/g, " "): every run of whitespace becomes one space
RECURSIVE CollapseSpaces(_)
CollapseSpaces(s) ==
    IF s = <<>> THEN <<>>
    ELSE IF IsSpace(Head(s))
         THEN <<" ">> \o CollapseSpaces(TrimStart(s))
         ELSE <<Head(s)>> \o CollapseSpaces(Tail(s))

\* String.prototype.split(" ")
RECURSIVE SplitOnSpace(_, _)
SplitOnSpace(s, word) ==
    IF s = <<>> THEN <<word>>
    ELSE IF Head(s) = " " THEN <<word>> \o SplitOnSpace(Tail(s), <<>>)
    ELSE SplitOnSpace(Tail(s), Append(word, Head(s)))

\* wrapSubtitleText, lines 299-304: flushLine
flushLine(w) ==
    IF w.currentLine # <<>>
    THEN [lines |-> Append(w.lines, w.currentLine), currentLine |-> <<>>]
    ELSE w

\* WrapWord with the length test on the word alone, not on the line
WrapWordNoLineTest(w, word, maxLen) ==
    IF w.currentLine = <<>>
    THEN IF Len(word) > maxLen
         THEN [w EXCEPT !.lines = @ \o splitLongWord(word, maxLen)]
         ELSE [w EXCEPT !.currentLine = word]
    ELSE IF Len(word) <= maxLen
    THEN [w EXCEPT !.currentLine = @ \o <<" ">> \o word]
    ELSE LET f == flushLine(w)
         IN [f EXCEPT !.lines = @ \o splitLongWord(word, maxLen)]

\* wrapSubtitleText, lines 306-327: one iteration of the loop over the words
WrapWord(w, word, maxLen) ==
    IF w.currentLine = <<>>
    THEN IF Len(word) > maxLen
         THEN [w EXCEPT !.lines = @ \o splitLongWord(word, maxLen)]
         ELSE [w EXCEPT !.currentLine = word]
    ELSE IF Len(w.currentLine) + 1 + Len(word) <= maxLen
    THEN [w EXCEPT !.currentLine = @ \o <<" ">> \o word]
    ELSE LET f == flushLine(w)
         IN IF Len(word) > maxLen
            THEN [f EXCEPT !.lines = @ \o splitLongWord(word, maxLen)]
            ELSE [f EXCEPT !.currentLine = word]

RECURSIVE WrapWords(_, _, _)
WrapWords(w, words, maxLen) ==
    IF words = <<>> THEN w
    ELSE WrapWords(WrapWord(w, Head(words), maxLen), Tail(words), maxLen)

\* wrapSubtitleText; the result is the list of lines that join("\n") joins
wrapSubtitleText(txt, maxLen) ==
    LET normalized == Trim(CollapseSpaces(txt))
    IN IF normalized = <<>> THEN <<>>
       ELSE IF ~(\E i \in 1..Len(normalized) : IsSpace(normalized[i]))
       THEN splitLongWord(normalized, maxLen)
       ELSE flushLine(WrapWords([lines |-> <<>>, currentLine |-> <<>>],
                                SplitOnSpace(normalized, <<>>), maxLen)).lines

\* splitTokenByMaxChars, lines 340-347: the chunks from offset on
RECURSIVE TokenChunks(_, _, _, _)
TokenChunks(token, maxChars, perChar, offset) ==
    IF ~(offset < Len(token.text)) THEN <<>>
    ELSE LET chunk == SubSeq(token.text, offset + 1,
                             Min(offset + maxChars, Len(token.text)))
         IN << [text |-> chunk,
                startTime |-> token.startTime + perChar * offset,
                endTime |-> token.startTime + perChar * (offset + Len(chunk))] >>
            \o TokenChunks(token, maxChars, perChar, offset + Len(chunk))

\* splitTokenByMaxChars; duration / totalChars is exact on the model's tokens
splitTokenByMaxChars(token, maxChars) ==
    IF Len(token.text) <= maxChars THEN <<token>>
    ELSE LET totalChars == Len(token.text)
             duration == token.endTime - token.startTime
             perChar == IF totalChars > 0 THEN duration \div totalChars ELSE 0
         IN TokenChunks(token, maxChars, perChar, 0)

\* splitSegmentsByMaxChars, lines 374-386: flush
flush(acc) ==
    IF Trim(acc.currentText) = <<>> \/ acc.startTime = Null \/ acc.endTime = Null
    THEN acc
    ELSE [results |-> Append(acc.results,
                             [text |-> Trim(acc.currentText),
                              startTime |-> acc.startTime.value,
                              endTime |-> acc.endTime.value,
                              tokens |-> acc.currentTokens]),
          currentTokens |-> <<>>, currentText |-> <<>>,
          startTime |-> Null, endTime |-> Null]

\* PartStep without the flush before a part that does not fit
PartStepNoEarlyFlush(acc, part, maxChars) ==
    LET a1 == IF acc.currentText = <<>>
              THEN [acc EXCEPT !.startTime = Num(part.startTime)] ELSE acc
        a3 == [a1 EXCEPT !.currentText = @ \o part.text,
                         !.endTime = Num(part.endTime),
                         !.currentTokens = Append(@, part)]
    IN IF Len(a3.currentText) >= maxChars THEN flush(a3) ELSE a3

\* splitSegmentsByMaxChars, lines 390-404: one part of one token
PartStep(acc, part, maxChars) ==
    LET a1 == IF acc.currentText = <<>>
              THEN [acc EXCEPT !.startTime = Num(part.startTime)] ELSE acc
        a2 == IF Len(a1.currentText) + Len(part.text) > maxChars /\ a1.currentText # <<>>
              THEN [flush(a1) EXCEPT !.startTime = Num(part.startTime)] ELSE a1
        a3 == [a2 EXCEPT !.currentText = @ \o part.text,
                         !.endTime = Num(part.endTime),
                         !.currentTokens = Append(@, part)]
    IN IF Len(a3.currentText) >= maxChars THEN flush(a3) ELSE a3

RECURSIVE PartsLoop(_, _, _)
PartsLoop(acc, parts, maxChars) ==
    IF parts = <<>> THEN acc
    ELSE PartsLoop(PartStep(acc, Head(parts), maxChars), Tail(parts), maxChars)

RECURSIVE TokensLoop(_, _, _)
TokensLoop(acc, toks, maxChars) ==
    IF toks = <<>> THEN acc
    ELSE TokensLoop(PartsLoop(acc, splitTokenByMaxChars(Head(toks), maxChars), maxChars),
                    Tail(toks), maxChars)

\* SplitSegment without the flush after the last token
SplitSegmentNoFinalFlush(results, segment, maxChars) ==
    IF Len(segment.text) <= maxChars THEN Append(results, segment)
    ELSE LET toks == IF Len(segment.tokens) # 0 THEN segment.tokens
                     ELSE << [text |-> segment.text,
                              startTime |-> segment.startTime,
                              endTime |-> segment.endTime] >>
         IN TokensLoop([results |-> results, currentTokens |-> <<>>,
                        currentText |-> <<>>,
                        startTime |-> Null, endTime |-> Null],
                       toks, maxChars).results

\* splitSegmentsByMaxChars, lines 359-408: one segment, appended to results
SplitSegment(results, segment, maxChars) ==
    IF Len(segment.text) <= maxChars THEN Append(results, segment)
    ELSE LET toks == IF Len(segment.tokens) # 0 THEN segment.tokens
                     ELSE << [text |-> segment.text,
                              startTime |-> segment.startTime,
                              endTime |-> segment.endTime] >>
         IN flush(TokensLoop([results |-> results, currentTokens |-> <<>>,
                              currentText |-> <<>>,
                              startTime |-> Null, endTime |-> Null],
                             toks, maxChars)).results

RECURSIVE SplitSegments(_, _, _)
SplitSegments(results, segs, maxChars) ==
    IF segs = <<>> THEN results
    ELSE SplitSegments(SplitSegment(results, Head(segs), maxChars), Tail(segs), maxChars)

splitSegmentsByMaxChars(segs, maxChars) ==
    IF maxChars <= 0 THEN segs ELSE SplitSegments(<<>>, segs, maxChars)

\* formatTimestamp: the fields HH, MM, SS and mmm of a time, each truncated
formatTimestamp(ticks, ticksPerSecond) ==
    << ticks \div (3600 * ticksPerSecond),
       (ticks % (3600 * ticksPerSecond)) \div (60 * ticksPerSecond),
       (ticks % (60 * ticksPerSecond)) \div ticksPerSecond,
       ((ticks % ticksPerSecond) * 1000) \div ticksPerSecond >>

\* generateSrt, lines 423-432: one constrained segment.  A cue keeps the
\* index line, the two timestamps and the wrapped lines that the SRT text
\* holds, and the times the timestamps were formatted from.
CueStep(srt, segment, clipStart, maxChars, ticksPerSecond) ==
    LET adjustedStart == Max(0, segment.startTime - clipStart)
        adjustedEnd == Max(0, segment.endTime - clipStart)
    IN IF adjustedEnd <= adjustedStart THEN srt
       ELSE [cues |-> Append(srt.cues,
                         [index |-> srt.subtitleIndex,
                          start |-> formatTimestamp(adjustedStart, ticksPerSecond),
                          end |-> formatTimestamp(adjustedEnd, ticksPerSecond),
                          adjustedStart |-> adjustedStart,
                          adjustedEnd |-> adjustedEnd,
                          lines |-> wrapSubtitleText(segment.text, maxChars)]),
             subtitleIndex |-> srt.subtitleIndex + 1]

RECURSIVE CueLoop(_, _, _, _, _)
CueLoop(srt, segs, clipStart, maxChars, ticksPerSecond) ==
    IF segs = <<>> THEN srt
    ELSE CueLoop(CueStep(srt, Head(segs), clipStart, maxChars, ticksPerSecond),
                 Tail(segs), clipStart, maxChars, ticksPerSecond)

generateSrt(segs, clipStart, maxChars, ticksPerSecond) ==
    CueLoop([cues |-> <<>>, subtitleIndex |-> 1],
            splitSegmentsByMaxChars(segs, maxChars),
            clipStart, maxChars, ticksPerSecond).cues

\* video.ts, lines 175-183: one segment; the text is written as it is
PlainCueStep(srt, segment, clipStart, ticksPerSecond) ==
    LET adjustedStart == Max(0, segment.startTime - clipStart)
        adjustedEnd == Max(0, segment.endTime - clipStart)
    IN [cues |-> Append(srt.cues,
                    [index |-> srt.subtitleIndex,
                     start |-> formatTimestamp(adjustedStart, ticksPerSecond),
                     end |-> formatTimestamp(adjustedEnd, ticksPerSecond),
                     adjustedStart |-> adjustedStart,
                     adjustedEnd |-> adjustedEnd,
                     lines |-> <<segment.text>>]),
        subtitleIndex |-> srt.subtitleIndex + 1]

RECURSIVE PlainCueLoop(_, _, _, _)
PlainCueLoop(srt, segs, clipStart, ticksPerSecond) ==
    IF segs = <<>> THEN srt
    ELSE PlainCueLoop(PlainCueStep(srt, Head(segs), clipStart, ticksPerSecond),
                      Tail(segs), clipStart, ticksPerSecond)

\* video.ts, lines 171-186
generateSrtPlain(segs, clipStart, ticksPerSecond) ==
    PlainCueLoop([cues |-> <<>>, subtitleIndex |-> 1], segs, clipStart, ticksPerSecond).cues

-----------------------------------------------------------------------------
(* Segments handed to the subtitle synthesizer *)

SrtTokenTexts ==
    { <<"a">>, <<" ">>, <<" ", "b">>, <<"a", "b", "a">>, <<"a", " ", "b">> }

RECURSIVE MaxLen(_)
MaxLen(texts) ==
    IF texts = {} THEN 0
    ELSE LET t == CHOOSE x \in texts : TRUE
         IN Max(Len(t), MaxLen(texts \ {t}))

\* One second, in ticks: every token duration of the model is a multiple of
\* every token length, so perChar = duration / totalChars is a whole number.
TicksPerSecond == LcmUpTo(MaxLen(SrtTokenTexts))

\* tokens back to back from time `from`; token i lasts durs[i] seconds
RECURSIVE TokenStart(_, _, _)
TokenStart(durs, from, i) ==
    IF i = 1 THEN from ELSE TokenStart(durs, from, i - 1) + durs[i - 1] * TicksPerSecond

TokensOf(texts, durs, from) ==
    [i \in 1..Len(texts) |->
        [text |-> texts[i],
         startTime |-> TokenStart(durs, from, i),
         endTime |-> TokenStart(durs, from, i) + durs[i] * TicksPerSecond]]

\* the segment the builder makes of a run of tokens (part_004, lines 57-62)
SegmentOf(toks) ==
    [text |-> Trim(TokenTexts(toks)),
     startTime |-> toks[1].startTime,
     endTime |-> toks[Len(toks)].endTime,
     tokens |-> toks]

\* a segment of the first second of the media
EarlySegment == SegmentOf(TokensOf(<< <<"b">> >>, <<1>>, 0))

\* a window: a drawn segment, alone or followed by a segment whose times
\* are those of the media's first second
SelectedLists ==
    { <<seg>> \o tail :
        seg \in { SegmentOf(TokensOf(texts, durs, from)) :
                    texts \in UNION { [1..n -> SrtTokenTexts] : n \in 1..MaxSrtTokens },
                    durs \in [1..MaxSrtTokens -> {0, 1}],
                    from \in {0, TicksPerSecond} },
        tail \in { <<>>, <<EarlySegment>> } }

InitSrt ==
    /\ selectedSegments \in { l \in SelectedLists : Trim(l[1].text) # <<>> }
    /\ clipStartTime = selectedSegments[1].startTime
    /\ maxSegmentChars \in 1..MaxChars
    /\ constrainedSegments = None
    /\ srtContent = None
    /\ srtContentPlain = None
    /\ IdleSelect /\ IdlePunct /\ IdleWrap /\ IdlePipe

\* generateSrt(selectedSegments, scaledStartTime, subtitleMaxLineLength)
GenerateSrt ==
    /\ srtContent = None
    /\ constrainedSegments' =
           Returned(splitSegmentsByMaxChars(selectedSegments, maxSegmentChars))
    /\ srtContent' = Returned(generateSrt(selectedSegments, clipStartTime,
                                          maxSegmentChars, TicksPerSecond))
    /\ UNCHANGED <<selectedSegments, clipStartTime, maxSegmentChars, srtContentPlain>>
    /\ UNCHANGED <<selectVars, punctVars, wrapVars, pipeVars>>

\* video.ts: generateSrt(selectedSegments, scaledStartTime)
GenerateSrtPlain ==
    /\ srtContentPlain = None
    /\ srtContentPlain' =
           Returned(generateSrtPlain(selectedSegments, clipStartTime, TicksPerSecond))
    /\ UNCHANGED <<selectedSegments, clipStartTime, maxSegmentChars,
                   constrainedSegments, srtContent>>
    /\ UNCHANGED <<selectVars, punctVars, wrapVars, pipeVars>>

NextSrt == GenerateSrt

SpecSrt == InitSrt /\ [][NextSrt]_vars

NextSrtPlain == GenerateSrtPlain

SpecSrtPlain == InitSrt /\ [][NextSrtPlain]_vars

-----------------------------------------------------------------------------
(* Texts handed to wrapSubtitleText *)

WrapTexts == UNION { [1..n -> {"a", " ", "\t"}] : n \in 0..MaxTextLen }

InitWrap ==
    /\ subtitleText \in WrapTexts
    /\ maxLineLength \in 1..MaxLine
    /\ wrapped = None
    /\ wrapCall = None
    /\ IdleSelect /\ IdlePunct /\ IdleSrt /\ IdlePipe

\* wrapSubtitleText(segment.text, maxSegmentChars)
WrapText ==
    /\ wrapped = None
    /\ wrapped' = Returned(wrapSubtitleText(subtitleText, maxLineLength))
    /\ UNCHANGED <<subtitleText, maxLineLength, wrapCall>>
    /\ UNCHANGED <<selectVars, punctVars, srtVars, pipeVars>>

NextWrap == WrapText

SpecWrap == InitWrap /\ [][NextWrap]_vars

-----------------------------------------------------------------------------
(* wrapSubtitleText step by step: the loops of part_004, one iteration a step *)

\* String.prototype.slice: a negative index counts from the end of the string
SliceIndex(len, index) ==
    IF index < 0 THEN Max(len + index, 0) ELSE Min(index, len)

slice(s, start, end) ==
    SubSeq(s, SliceIndex(Len(s), start) + 1, SliceIndex(Len(s), end))

\* parts the model records: more than a returning call of splitLongWord pushes
PartsKept == MaxTextLen + 1

\* parts.push(part), recorded up to PartsKept entries
PushedPart(parts, part) ==
    IF Len(parts) < PartsKept THEN Append(parts, part) ELSE parts

StepTexts == UNION { [1..n -> {"a", " "}] : n \in 0..MaxTextLen }

LineLengths == {-1, 0} \cup 1..MaxLine

InitWrapSteps ==
    /\ subtitleText \in StepTexts
    /\ maxLineLength \in LineLengths
    /\ wrapped = None
    /\ wrapCall = [at |-> "start", words |-> <<>>, lines |-> <<>>,
                   currentLine |-> <<>>, remaining |-> <<>>, parts |-> <<>>]
    /\ IdleSelect /\ IdlePunct /\ IdleSrt /\ IdlePipe

\* splitLongWord(word, maxLength), lines 275-276: the call
CallSplitLongWord(w, word) ==
    [w EXCEPT !.at = "test", !.remaining = word, !.parts = <<>>]

\* wrapSubtitleText, lines 288-297: up to the loop over the words
WrapEnter ==
    /\ wrapCall.at = "start"
    /\ LET normalized == Trim(CollapseSpaces(subtitleText))
       IN IF normalized = <<>>
          THEN /\ wrapCall' = [wrapCall EXCEPT !.at = "returned"]
               /\ wrapped' = Returned(<<>>)
          ELSE /\ wrapped' = wrapped
               /\ IF ~(\E i \in 1..Len(normalized) : IsSpace(normalized[i]))
                  THEN wrapCall' = CallSplitLongWord(wrapCall, normalized)
                  ELSE wrapCall' = [wrapCall EXCEPT
                                       !.at = "words",
                                       !.words = SplitOnSpace(normalized, <<>>)]
    /\ UNCHANGED <<subtitleText, maxLineLength>>
    /\ UNCHANGED <<selectVars, punctVars, srtVars, pipeVars>>

\* wrapSubtitleText, lines 306-327: one iteration of the loop over the words
WrapNextWord ==
    /\ wrapCall.at = "words"
    /\ wrapCall.words # <<>>
    /\ LET word == Head(wrapCall.words)
           w == [wrapCall EXCEPT !.words = Tail(@)]
       IN wrapCall' =
              IF w.currentLine = <<>>
              THEN IF Len(word) > maxLineLength
                   THEN CallSplitLongWord(w, word)
                   ELSE [w EXCEPT !.currentLine = word]
              ELSE IF Len(w.currentLine) + 1 + Len(word) <= maxLineLength
              THEN [w EXCEPT !.currentLine = @ \o <<" ">> \o word]
              ELSE LET f == [w EXCEPT !.lines = flushLine(w).lines,
                                      !.currentLine = <<>>]
                   IN IF Len(word) > maxLineLength
                      THEN CallSplitLongWord(f, word)
                      ELSE [f EXCEPT !.currentLine = word]
    /\ UNCHANGED <<subtitleText, maxLineLength, wrapped>>
    /\ UNCHANGED <<selectVars, punctVars, srtVars, pipeVars>>

\* splitLongWord, line 277: the test of the while loop
SplitTest ==
    /\ wrapCall.at = "test"
    /\ wrapCall' = [wrapCall EXCEPT
                       !.at = IF Len(wrapCall.remaining) > maxLineLength
                              THEN "body" ELSE "tail"]
    /\ UNCHANGED <<subtitleText, maxLineLength, wrapped>>
    /\ UNCHANGED <<selectVars, punctVars, srtVars, pipeVars>>

\* splitLongWord, lines 278-279: the body of the while loop
SplitBody ==
    /\ wrapCall.at = "body"
    /\ wrapCall' = [wrapCall EXCEPT
                       !.at = "test",
                       !.parts = PushedPart(@, slice(wrapCall.remaining, 0, maxLineLength)),
                       !.remaining = slice(@, maxLineLength, Len(@))]
    /\ UNCHANGED <<subtitleText, maxLineLength, wrapped>>
    /\ UNCHANGED <<selectVars, punctVars, srtVars, pipeVars>>

\* splitLongWord, lines 281-284, and what its caller does with the parts:
\* lines.push(...parts) at 309 and 323, the parts themselves at 292
SplitReturn ==
    /\ wrapCall.at = "tail"
    /\ LET parts == IF Len(wrapCall.remaining) > 0
                    THEN PushedPart(wrapCall.parts, wrapCall.remaining)
                    ELSE wrapCall.parts
       IN wrapCall' = [wrapCall EXCEPT
                          !.at = "words",
                          !.lines = @ \o parts,
                          !.remaining = <<>>,
                          !.parts = <<>>]
    /\ UNCHANGED <<subtitleText, maxLineLength, wrapped>>
    /\ UNCHANGED <<selectVars, punctVars, srtVars, pipeVars>>

\* wrapSubtitleText, lines 329-330 (and 292): the lines are returned
WrapReturn ==
    /\ wrapCall.at = "words"
    /\ wrapCall.words = <<>>
    /\ wrapCall' = [wrapCall EXCEPT !.at = "returned",
                                    !.lines = flushLine(wrapCall).lines,
                                    !.currentLine = <<>>]
    /\ wrapped' = Returned(flushLine(wrapCall).lines)
    /\ UNCHANGED <<subtitleText, maxLineLength>>
    /\ UNCHANGED <<selectVars, punctVars, srtVars, pipeVars>>

NextWrapSteps ==
    \/ WrapEnter
    \/ WrapNextWord
    \/ SplitTest
    \/ SplitBody
    \/ SplitReturn
    \/ WrapReturn

\* the call runs in one synchronous stretch: a step that can be taken is taken
SpecWrapSteps ==
    InitWrapSteps /\ [][NextWrapSteps]_vars /\ WF_vars(NextWrapSteps)

-----------------------------------------------------------------------------
(* JSON values as the handler sees them *)

\* A value is a record of its type t and its content: the fields of an
\* object are a record, the elements of an array a sequence, a string a
\* sequence of characters.
Undefined == [t |-> "undefined"]
JNull == [t |-> "null"]
JNum(n) == [t |-> "number", num |-> n]
JStr(chars) == [t |-> "string", chars |-> chars]
JArr(elements) == [t |-> "array", elements |-> elements]
JObj(fields) == [t |-> "object", fields |-> fields]

\* the outcome of an evaluation that may raise a TypeError
Threw == [threw |-> TRUE, value |-> <<>>]
Value(x) == [threw |-> FALSE, value |-> x]

\* x.f for a value x that is not null or undefined
Get(x, f) == IF x.t = "object" /\ f \in DOMAIN x.fields THEN x.fields[f] ELSE Undefined

\* x?.f
OptGet(x, f) == IF x.t \in {"undefined", "null"} THEN Undefined ELSE Get(x, f)

\* !x
Falsy(x) ==
    \/ x.t \in {"undefined", "null"}
    \/ x.t = "number" /\ x.num = 0
    \/ x.t = "string" /\ x.chars = <<>>
    \/ x.t = "text" /\ x.empty

\* A text: what JSON.parse makes of it (parses = FALSE when it throws)
Text(parsed) == [t |-> "text", empty |-> FALSE, parses |-> TRUE, value |-> parsed]
NotJson == [t |-> "text", empty |-> FALSE, parses |-> FALSE, value |-> Undefined]
EmptyText == [t |-> "text", empty |-> TRUE, parses |-> FALSE, value |-> Undefined]

\* a string that carries a transcript page: inflated is the text inflateSync
\* gives, None when it throws; raw is the string itself read as text; its
\* characters are not modelled beyond the string being empty or not
Encoded(inflated, raw) ==
    [t |-> "string", chars |-> IF raw.empty THEN <<>> ELSE <<"z">>,
     inflated |-> inflated, raw |-> raw]

-----------------------------------------------------------------------------
(* Transcript decoding: content.ts *)

\* decodeZlibBase64Content: the inflated text, or the value itself
decodeZlibBase64Content(value) ==
    IF Falsy(value) THEN value.raw
    ELSE IF value.inflated # None THEN value.inflated
    ELSE value.raw

\* decodeScriptItem: the parsed script, or null
decodeScriptItem(value) ==
    IF Falsy(value) \/ value.t # "string" THEN JNull
    ELSE LET inflated == decodeZlibBase64Content(value)
         IN IF Falsy(inflated) THEN JNull
            ELSE IF inflated.parses THEN inflated.value
            ELSE JNull

-----------------------------------------------------------------------------
(* Segment extraction from a decoded script: part_004, lines 19-39 *)

\* lines 32-38: the tokens of one paragraph's children
RECURSIVE ChildTokens(_)
ChildTokens(children) ==
    IF children = <<>> THEN Value(<<>>)
    ELSE LET child == Head(children)
         IN IF child.t \in {"undefined", "null"} THEN Threw
            ELSE LET rest == ChildTokens(Tail(children))
                     text == Get(child, "text")
                     s == Get(child, "s")
                     e == Get(child, "e")
                     token == [text |-> text.chars,
                               startTime |-> IF s.t = "number" THEN s.num ELSE 0,
                               endTime |-> IF e.t = "number" THEN e.num ELSE 0]
                 IN IF rest.threw THEN Threw
                    ELSE IF Get(child, "type") = JStr(<<"karaoke">>) /\ text.t = "string"
                         THEN Value(<<token>> \o rest.value)
                         ELSE rest

\* lines 28-39: the tokens of every paragraph, in order
RECURSIVE ParagraphTokens(_)
ParagraphTokens(paragraphs) ==
    IF paragraphs = <<>> THEN Value(<<>>)
    ELSE LET paragraph == Head(paragraphs)
         IN IF paragraph.t \in {"undefined", "null"} THEN Threw
            ELSE LET children == Get(paragraph, "children")
                     rest == ParagraphTokens(Tail(paragraphs))
                 IN IF children.t # "array" THEN rest
                    ELSE LET mine == ChildTokens(children.elements)
                         IN IF mine.threw \/ rest.threw THEN Threw
                            ELSE Value(mine.value \o rest.value)

\* extractSegmentsFromScript on a decoded script (a value that is not falsy)
extractSegmentsFromJson(scr) ==
    LET editorState == Get(scr, "editorState")
        paragraphs == OptGet(OptGet(editorState, "root"), "children")
    IN IF paragraphs.t # "array" THEN Value(<<>>)
       ELSE LET tokens == ParagraphTokens(paragraphs.elements)
            IN IF tokens.threw THEN Threw
               ELSE Value(FlushTail(PunctuationLoop(EmptyAccumulator, tokens.value)))

\* scripts.flatMap((script) => extractSegmentsFromScript(script))
RECURSIVE FlatMapExtract(_)
FlatMapExtract(scripts) ==
    IF scripts = <<>> THEN Value(<<>>)
    ELSE LET first == extractSegmentsFromJson(Head(scripts))
         IN IF first.threw THEN Threw
            ELSE LET rest == FlatMapExtract(Tail(scripts))
                 IN IF rest.threw THEN Threw ELSE Value(first.value \o rest.value)

-----------------------------------------------------------------------------
(* The clip pipeline: the handler of create-youtube-highlight-clip *)

\* In the pipeline a time is an integer number of thousandths of the unit the
\* transcript uses, so that the factor 0.001 keeps it an integer; a duration
\* in minutes is likewise in thousandths of a minute.  Page numbers are plain.
UnitsPerSecond == 1000

\* the floor of the mismatch threshold, part_004 line 608
ScaleFloor == 10000

\* the invocations: each has its own arguments and local variables, and all
\* of them work in the same output directory
Procs == {1, 2}

videoPath == "video.mp4"
clipPath == "clip_no_subs.mp4"
srtPath == "subtitles.srt"
finalPath == "clip_with_subs.mp4"

FileNames == { videoPath, clipPath, srtPath, finalPath }

Tools == { "yt-dlp", "ffprobe", "ffmpeg-trim", "ffmpeg-burn" }

\* clipLengthMinutes ?? 3.5
DefaultClipLengthMinutes == [num |-> 3500, den |-> 1]

\* line 531
DefaultKeywords ==
    << <<"A", "I">>,
       <<"uC5D4", "uBE44", "uB514", "uC544">>,
       <<"uC624", "uB77C", "uD074">>,
       <<"uACB0", "uB860">>,
       <<"uBBF8", "uAD6D", "uC7A5">>,
       <<"uC2DC", "uC7A5">>,
       <<"uAE08", "uB9AC">> >>

\* normalizeKeywords, lines 85-99
RECURSIVE NormalizeEntries(_)
NormalizeEntries(entries) ==
    IF entries = <<>> THEN <<>>
    ELSE LET entry == Head(entries)
             rest == NormalizeEntries(Tail(entries))
         IN IF entry.t = "string" THEN <<entry.chars>> \o rest
            ELSE IF entry.t = "object" /\ Get(entry, "keyword").t = "string"
                 THEN <<Get(entry, "keyword").chars>> \o rest
            ELSE rest

normalizeKeywords(value) ==
    IF value.t # "array" THEN <<>> ELSE NormalizeEntries(value.elements)

\* applyTimeScale, lines 125-137
ScaleTime(time, scale) == (time * scale.num) \div scale.den

\* applyTimeScale with the tokens left as they are
applyTimeScaleSegmentsOnly(segs, scale) ==
    IF scale = [num |-> 1, den |-> 1] THEN segs
    ELSE [i \in 1..Len(segs) |->
            [text |-> segs[i].text,
             startTime |-> ScaleTime(segs[i].startTime, scale),
             endTime |-> ScaleTime(segs[i].endTime, scale),
             tokens |-> segs[i].tokens]]

applyTimeScale(segs, scale) ==
    IF scale = [num |-> 1, den |-> 1] THEN segs
    ELSE [i \in 1..Len(segs) |->
            [text |-> segs[i].text,
             startTime |-> ScaleTime(segs[i].startTime, scale),
             endTime |-> ScaleTime(segs[i].endTime, scale),
             tokens |-> [j \in 1..Len(segs[i].tokens) |->
                           [text |-> segs[i].tokens[j].text,
                            startTime |-> ScaleTime(segs[i].tokens[j].startTime, scale),
                            endTime |-> ScaleTime(segs[i].tokens[j].endTime, scale)]]]]

\* lines 602-605: segments.reduce((max, segment) => Math.max(max, segment.endTime), 0)
RECURSIVE maxSegmentEnd(_)
maxSegmentEnd(segs) ==
    IF segs = <<>> THEN 0
    ELSE Max(maxSegmentEnd(SubSeq(segs, 1, Len(segs) - 1)), segs[Len(segs)].endTime)

\* scaleNeeded with the floor of 10000 left out
scaleNeededNoFloor(videoDuration, segs) ==
    IF videoDuration.finite /\ maxSegmentEnd(segs) > videoDuration.v * 10
    THEN [num |-> 1, den |-> 1000]
    ELSE [num |-> 1, den |-> 1]

\* scaleNeeded with a floor ten times as high
scaleNeededHighFloor(videoDuration, segs) ==
    IF /\ videoDuration.finite
       /\ maxSegmentEnd(segs) > Max(videoDuration.v * 10, ScaleFloor * 10 * UnitsPerSecond)
    THEN [num |-> 1, den |-> 1000]
    ELSE [num |-> 1, den |-> 1]

\* lines 606-610; videoDuration is [finite |-> Number.isFinite, v |-> its value]
scaleNeeded(videoDuration, segs) ==
    IF /\ videoDuration.finite
       /\ maxSegmentEnd(segs) > Max(videoDuration.v * 10, ScaleFloor * UnitsPerSecond)
    THEN [num |-> 1, den |-> 1000]
    ELSE [num |-> 1, den |-> 1]

\* the local variables of an invocation before it has assigned any
InitLocal ==
    [fileMetaId |-> FALSE, keywords |-> <<>>, scripts |-> <<>>,
     page |-> 0, totalPages |-> 0, segments |-> <<>>,
     videoDuration |-> None, timeScale |-> None, scaledSegmentsAll |-> None,
     selection |-> None, trimArgs |-> None, srtArgs |-> None]

NoRuns == [tool \in Tools |-> 0]

-----------------------------------------------------------------------------
(* What the pipeline is given, and what its collaborators answer *)

StatusTexts == { "Not Found", "Unauthorized" }

FailedResponses == { [ok |-> FALSE, statusText |-> st, body |-> JNull] : st \in StatusTexts }

OkResponse(body) == [ok |-> TRUE, statusText |-> "OK", body |-> body]

Keyword == <<"a">>

ArgKeywordLists == { <<>>, <<Keyword>> }

ArgSets ==
    { [boardId |-> b, fileMetaId |-> f, highlightKeywords |-> k] :
        b \in BOOLEAN, f \in BOOLEAN, k \in ArgKeywordLists }

BoardBodies ==
    { JNull,
      JObj([fileMetaId |-> JStr(<<"f">>)]),
      JObj([fileMeta |-> JArr(<< JObj([id |-> JStr(<<"f">>)]) >>),
            keywords |-> JArr(<< JObj([keyword |-> JStr(Keyword)]), JNum(5) >>)]),
      JObj([fileMeta |-> JArr(<<>>), keywords |-> JArr(<< JStr(Keyword) >>)]) }

KeywordBodies ==
    { JNull, JObj([keywords |-> JArr(<< JStr(Keyword) >>)]), JObj([keywords |-> JNum(5)]) }

\* a word unit, a paragraph and a script around them
KaraokeNode(text, s, e) ==
    JObj([type |-> JStr(<<"karaoke">>), text |-> text, s |-> s, e |-> e])

ScriptOf(paragraphs) ==
    JObj([editorState |-> JObj([root |-> JObj([children |-> paragraphs])])])

Paragraph(children) == JObj([children |-> children])

\* the end times of the one word of a page, in the transcript's unit
EndTimes == { 1, 10000, 10001, 20001 }

WordScript(endTime) ==
    ScriptOf(JArr(<< Paragraph(JArr(<<
        KaraokeNode(JStr(<<"a", ".">>), JNum(0), JNum(endTime * UnitsPerSecond)) >>)) >>))

\* a transcript of two sentences, the keyword in the second, that ends at
\* endTime of its own unit
TwoSentenceScript(endTime) ==
    ScriptOf(JArr(<< Paragraph(JArr(<<
        KaraokeNode(JStr(<<"b", ".">>), JNum(0), JNum((endTime * UnitsPerSecond) \div 2)),
        KaraokeNode(JStr(<<"a", ".">>), JNum((endTime * UnitsPerSecond) \div 2),
                    JNum(endTime * UnitsPerSecond)) >>)) >>))

\* media durations in thousandths of a second: 1 s, 10 s, 10.001 s, 11 s, 500 s
MediaDurations == { 1000, 10000, 10001, 11000, 500000 }

\* a transcript in milliseconds of a medium of each of these durations
MillisecondScriptBodies ==
    { JObj([item |-> Encoded(Text(TwoSentenceScript(d)), NotJson)]) : d \in MediaDurations }

WellFormedScripts ==
    { WordScript(endTime) : endTime \in EndTimes }
        \cup { ScriptOf(JArr(<< Paragraph(JArr(<<
                  KaraokeNode(JNum(5), JNum(0), JNum(UnitsPerSecond)),
                  KaraokeNode(JStr(<<"a", ".">>), Undefined, JNum(UnitsPerSecond)) >>)) >>)) }

\* scripts of a shape the decoder does not expect
MalformedScripts ==
    { JNull, JNum(5), JObj([other |-> JNum(5)]),
      JObj([editorState |-> JNull]),
      ScriptOf(JNum(5)),
      ScriptOf(JArr(<< JNull >>)),
      ScriptOf(JArr(<< JNum(5) >>)),
      ScriptOf(JArr(<< Paragraph(JNum(5)) >>)),
      ScriptOf(JArr(<< Paragraph(JArr(<< JNull >>)) >>)) }

\* the item of a page: a deflated script, and what else may stand there
WellFormedItems ==
    { Encoded(Text(scr), NotJson) : scr \in WellFormedScripts }
        \cup { Encoded(None, Text(WordScript(1))) }

MalformedItems ==
    { Undefined, JNum(5), Encoded(None, EmptyText), Encoded(None, NotJson),
      Encoded(NotJson, NotJson), Encoded(EmptyText, NotJson) }
        \cup { Encoded(Text(scr), NotJson) : scr \in MalformedScripts }

Items == WellFormedItems \cup MalformedItems

ScriptBodies(pages) ==
    { JNull } \cup { JObj([item |-> item]) : item \in Items }
        \cup { JObj([item |-> item, meta |-> JObj([totalPages |-> JNum(n)])]) :
                 item \in Items, n \in pages }

\* the items of the pages after the first: a missing one, a well-formed one
\* and one whose paragraph list holds null
PageItems ==
    { Undefined, Encoded(Text(WordScript(1)), NotJson),
      Encoded(Text(ScriptOf(JArr(<< JNull >>))), NotJson) }

PageBodies == { JNull } \cup { JObj([item |-> item]) : item \in PageItems }

\* how a run of an external tool ends: its exit code, and whether it has
\* written its output file
ToolOutcomes == { [exit |-> x, wrote |-> w] : x \in {0, 1}, w \in BOOLEAN }

\* dependable collaborators: the transcript is one well-formed page, and
\* every tool writes its file and exits with 0
DependableScriptBodies == { JObj([item |-> Encoded(Text(WordScript(1)), NotJson)]) }

ScriptResponses ==
    IF world = "dependable" THEN { OkResponse(b) : b \in DependableScriptBodies }
    ELSE IF world = "milliseconds" THEN { OkResponse(b) : b \in MillisecondScriptBodies }
    ELSE FailedResponses \cup { OkResponse(b) : b \in ScriptBodies(1..MaxPages) }

Outcomes ==
    IF world = "dependable" THEN { [exit |-> 0, wrote |-> TRUE] } ELSE ToolOutcomes

\* Number.parseFloat of what ffprobe printed
ProbedDurations ==
    IF world = "milliseconds" THEN { [finite |-> TRUE, v |-> d] : d \in MediaDurations }
    ELSE { [finite |-> FALSE, v |-> 0] }
             \cup { [finite |-> TRUE, v |-> d * UnitsPerSecond] : d \in {1, 2000} }

\* a file: who wrote it (0: a run before the invocations of the model) and
\* who had written the files it was made from
File(by, inputs) == [by |-> by, inputs |-> inputs]

EmptyDisk == [dir |-> FALSE, files |-> [f \in FileNames |-> None]]

DiskWith(names) ==
    [dir |-> TRUE,
     files |-> [f \in FileNames |-> IF f \in names THEN File(0, <<>>) ELSE None]]

Disks == { EmptyDisk, DiskWith({}), DiskWith({videoPath}), DiskWith(FileNames) }

-----------------------------------------------------------------------------
(* The steps of the handler, lines 473-705 *)

\* throw new Error(message + detail): the invocation ends in the error
Fail(p, message, detail) ==
    /\ pc' = [pc EXCEPT ![p] = "failed"]
    /\ result' = [result EXCEPT ![p] = [ok |-> FALSE, message |-> message, detail |-> detail]]

Goto(p, step) ==
    /\ pc' = [pc EXCEPT ![p] = step]
    /\ UNCHANGED result

Fetched(p, what, response) ==
    fetched' = [fetched EXCEPT ![p] =
                  Append(@, [what |-> what, ok |-> response.ok,
                             statusText |-> response.statusText,
                             item |-> OptGet(response.body, "item")])]

\* a fetch whose failure is never noticed
RefusedNever(response) == FALSE

\* if (!response.ok), the test after the fetch of the board, of the first
\* script page and of every further page
Refused(response) == ~response.ok

\* lines 475-487 and the tests of lines 489, 510 and 514 when no board is
\* fetched: the arguments are checked and the output directory is made
CheckArgs(p) ==
    /\ pc[p] = "start"
    /\ IF ~args[p].boardId /\ ~args[p].fileMetaId
       THEN /\ Fail(p, "Provide boardId or fileMetaId to fetch transcript.", "")
            /\ UNCHANGED <<local, disk, created>>
       ELSE /\ disk' = [disk EXCEPT !.dir = TRUE]
            /\ created' = [created EXCEPT ![p] =
                             IF disk.dir THEN @ ELSE @ \cup {"outputDir"}]
            /\ local' = [local EXCEPT ![p].fileMetaId = args[p].fileMetaId,
                                      ![p].keywords = args[p].highlightKeywords]
            /\ Goto(p, IF ~args[p].fileMetaId THEN "board"
                       ELSE IF args[p].highlightKeywords = <<>> THEN "keywords"
                       ELSE "script")
    /\ UNCHANGED <<args, toolRuns, fetched, world>>
    /\ UNCHANGED <<selectVars, punctVars, srtVars, wrapVars>>

\* lines 489-512: the board is fetched for its fileMetaId and its keywords
FetchBoard(p) ==
    /\ pc[p] = "board"
    /\ \E response \in FailedResponses \cup { OkResponse(b) : b \in BoardBodies } :
         /\ Fetched(p, "board", response)
         /\ IF Refused(response)
            THEN /\ Fail(p, "Failed to fetch board: ", response.statusText)
                 /\ UNCHANGED local
            ELSE IF response.body.t \in {"undefined", "null"}
            THEN /\ Fail(p, "TypeError", "Cannot read properties of null")
                 /\ UNCHANGED local
            ELSE LET boardData == response.body
                     fileMeta == Get(boardData, "fileMeta")
                     first == IF fileMeta.t = "array" /\ Len(fileMeta.elements) > 0
                              THEN fileMeta.elements[1] ELSE Undefined
                     fileMetaId ==
                         \/ ~Falsy(Get(boardData, "fileMetaId"))
                         \/ fileMeta.t = "array" /\ ~Falsy(OptGet(first, "id"))
                     known ==
                         IF local[p].keywords = <<>> /\ ~Falsy(Get(boardData, "keywords"))
                         THEN normalizeKeywords(Get(boardData, "keywords"))
                         ELSE local[p].keywords
                 IN /\ local' = [local EXCEPT ![p].fileMetaId = fileMetaId,
                                              ![p].keywords = known]
                    /\ IF ~fileMetaId
                       THEN Fail(p, "Could not determine fileMetaId from boardId.", "")
                       ELSE Goto(p, IF known = <<>> THEN "keywords" ELSE "script")
    /\ UNCHANGED <<args, disk, toolRuns, created, world>>
    /\ UNCHANGED <<selectVars, punctVars, srtVars, wrapVars>>

\* lines 514-532: the keywords of the file are fetched when none are known yet
FetchKeywords(p) ==
    /\ pc[p] = "keywords"
    /\ \E response \in FailedResponses \cup { OkResponse(b) : b \in KeywordBodies } :
         /\ Fetched(p, "keywords", response)
         /\ LET known == IF response.ok
                            THEN normalizeKeywords(OptGet(response.body, "keywords"))
                            ELSE local[p].keywords
            IN local' = [local EXCEPT ![p].keywords =
                            IF known = <<>> THEN DefaultKeywords ELSE known]
         /\ Goto(p, "script")
    /\ UNCHANGED <<args, disk, toolRuns, created, world>>
    /\ UNCHANGED <<selectVars, punctVars, srtVars, wrapVars>>

\* lines 574-577, reached when the last page has been fetched: the segments
\* of every script, and the test that there are some
ExtractAll(p, scripts, page, totalPages) ==
    LET extracted == FlatMapExtract(scripts)
    IN IF extracted.threw
       THEN /\ Fail(p, "TypeError", "Cannot read properties of null")
            /\ local' = [local EXCEPT ![p].scripts = scripts, ![p].page = page,
                                      ![p].totalPages = totalPages]
       ELSE IF Len(extracted.value) = 0
       THEN /\ Fail(p, "No segments found in script.", "")
            /\ local' = [local EXCEPT ![p].scripts = scripts, ![p].page = page,
                                      ![p].totalPages = totalPages]
       ELSE /\ Goto(p, "download")
            /\ local' = [local EXCEPT ![p].scripts = scripts, ![p].page = page,
                                      ![p].totalPages = totalPages,
                                      ![p].segments = extracted.value]

\* scripts.push(script) when the decoded script is not falsy
Pushed(scripts, item) ==
    LET decoded == decodeScriptItem(item)
    IN IF Falsy(decoded) THEN scripts ELSE Append(scripts, decoded)

\* lines 534-555: the first page of the script
FetchScript(p) ==
    /\ pc[p] = "script"
    /\ \E response \in ScriptResponses :
         /\ Fetched(p, "script", response)
         /\ IF Refused(response)
            THEN /\ Fail(p, "Failed to fetch script: ", response.statusText)
                 /\ UNCHANGED local
            ELSE LET scriptPayload == response.body
                     scripts == Pushed(<<>>, OptGet(scriptPayload, "item"))
                     declared == OptGet(OptGet(scriptPayload, "meta"), "totalPages")
                     totalPages == IF declared.t \in {"undefined", "null"} THEN 1
                                   ELSE declared.num
                 IN IF 1 < totalPages
                    THEN /\ Goto(p, "pages")
                         /\ local' = [local EXCEPT ![p].scripts = scripts, ![p].page = 1,
                                                   ![p].totalPages = totalPages]
                    ELSE ExtractAll(p, scripts, 1, totalPages)
    /\ UNCHANGED <<args, disk, toolRuns, created, world>>
    /\ UNCHANGED <<selectVars, punctVars, srtVars, wrapVars>>

\* lines 556-572: one further page of the script
FetchPage(p) ==
    /\ pc[p] = "pages"
    /\ \E response \in FailedResponses \cup { OkResponse(b) : b \in PageBodies } :
         /\ Fetched(p, "page", response)
         /\ IF Refused(response)
            THEN /\ Fail(p, "Failed to fetch script page: ", response.statusText)
                 /\ UNCHANGED local
            ELSE LET scripts == Pushed(local[p].scripts, OptGet(response.body, "item"))
                     page == local[p].page + 1
                 IN IF page < local[p].totalPages
                    THEN /\ Goto(p, "pages")
                         /\ local' = [local EXCEPT ![p].scripts = scripts, ![p].page = page]
                    ELSE ExtractAll(p, scripts, page, local[p].totalPages)
    /\ UNCHANGED <<args, disk, toolRuns, created, world>>
    /\ UNCHANGED <<selectVars, punctVars, srtVars, wrapVars>>

\* execSync of a tool that leaves a file alone when there is one already
ExecKeepingFiles(p, tool, path, content, outcome, next) ==
    /\ toolRuns' = [toolRuns EXCEPT ![p][tool] = @ + 1]
    /\ IF outcome.wrote /\ disk.files[path] = None
       THEN /\ disk' = [disk EXCEPT !.files[path] = content]
            /\ created' = [created EXCEPT ![p] = @ \cup {path}]
       ELSE UNCHANGED <<disk, created>>
    /\ IF outcome.exit # 0 THEN Fail(p, "Command failed: ", path) ELSE Goto(p, next)

\* execSync of a tool that writes the file at path: the run is counted, the
\* file is written when the tool wrote it, and a non-zero exit is thrown
Exec(p, tool, path, content, outcome, next) ==
    /\ toolRuns' = [toolRuns EXCEPT ![p][tool] = @ + 1]
    /\ IF outcome.wrote
       THEN /\ disk' = [disk EXCEPT !.files[path] = content]
            /\ created' = [created EXCEPT ![p] = @ \cup {path}]
       ELSE UNCHANGED <<disk, created>>
    /\ IF outcome.exit # 0 THEN Fail(p, "Command failed: ", path) ELSE Goto(p, next)

\* existsSync of Exists with the answer always yes
ExistsAlways(path) == TRUE

\* existsSync(path)
Exists(path) == disk.files[path] # None

\* lines 579-583: the cached video is looked for
CheckCache(p) ==
    /\ pc[p] = "download"
    /\ Goto(p, IF Exists(videoPath) THEN "checkVideo" ELSE "yt-dlp")
    /\ UNCHANGED <<args, local, disk, toolRuns, created, fetched, world>>
    /\ UNCHANGED <<selectVars, punctVars, srtVars, wrapVars>>

\* lines 585-589: yt-dlp
RunYtDlp(p) ==
    /\ pc[p] = "yt-dlp"
    /\ \E outcome \in Outcomes :
         Exec(p, "yt-dlp", videoPath, File(p, <<>>), outcome, "checkVideo")
    /\ UNCHANGED <<args, local, fetched, world>>
    /\ UNCHANGED <<selectVars, punctVars, srtVars, wrapVars>>

\* lines 592-594
CheckVideo(p) ==
    /\ pc[p] = "checkVideo"
    /\ IF ~Exists(videoPath)
       THEN Fail(p, "Video download failed: ", videoPath)
       ELSE Goto(p, "ffprobe")
    /\ UNCHANGED <<args, local, disk, toolRuns, created, fetched, world>>
    /\ UNCHANGED <<selectVars, punctVars, srtVars, wrapVars>>

\* lines 596-620: ffprobe, the time scale and the selection of the window
Probe(p) ==
    /\ pc[p] = "ffprobe"
    /\ toolRuns' = [toolRuns EXCEPT ![p]["ffprobe"] = @ + 1]
    /\ \/ /\ world # "dependable"
          /\ Fail(p, "Command failed: ", videoPath)
          /\ UNCHANGED local
       \/ \E videoDuration \in ProbedDurations :
            LET timeScale == scaleNeeded(videoDuration, local[p].segments)
                scaledSegmentsAll == applyTimeScale(local[p].segments, timeScale)
                selection == selectHighlightSegments(scaledSegmentsAll,
                                 DefaultClipLengthMinutes, local[p].keywords)
            IN /\ local' = [local EXCEPT ![p].videoDuration = videoDuration,
                                         ![p].timeScale = timeScale,
                                         ![p].scaledSegmentsAll = Returned(scaledSegmentsAll),
                                         ![p].selection = selection]
               /\ IF Len(selection.segments) = 0
                  THEN Fail(p, "No highlight segments selected.", "")
                  ELSE Goto(p, "trim")
    /\ UNCHANGED <<args, disk, created, fetched, world>>
    /\ UNCHANGED <<selectVars, punctVars, srtVars, wrapVars>>

\* lines 625-635: ffmpeg cuts the clip out of the video
CutClip(p) ==
    /\ pc[p] = "trim"
    /\ \E outcome \in Outcomes :
         Exec(p, "ffmpeg-trim", clipPath,
              File(p, <<disk.files[videoPath].by>>), outcome, "checkClip")
    /\ local' = [local EXCEPT ![p].trimArgs =
                    [ss |-> local[p].selection.startTime,
                     t |-> local[p].selection.endTime - local[p].selection.startTime]]
    /\ UNCHANGED <<args, fetched, world>>
    /\ UNCHANGED <<selectVars, punctVars, srtVars, wrapVars>>

\* lines 637-639
CheckClip(p) ==
    /\ pc[p] = "checkClip"
    /\ IF ~Exists(clipPath)
       THEN Fail(p, "Clip generation failed: ", clipPath)
       ELSE Goto(p, "srt")
    /\ UNCHANGED <<args, local, disk, toolRuns, created, fetched, world>>
    /\ UNCHANGED <<selectVars, punctVars, srtVars, wrapVars>>

\* lines 641-649: the subtitles are written
WriteSrt(p) ==
    /\ pc[p] = "srt"
    /\ disk' = [disk EXCEPT !.files[srtPath] = File(p, <<>>)]
    /\ created' = [created EXCEPT ![p] = @ \cup {srtPath}]
    /\ Goto(p, "burn")
    /\ local' = [local EXCEPT ![p].srtArgs =
                    [segments |-> local[p].selection.segments,
                     clipStartTime |-> local[p].selection.startTime]]
    /\ UNCHANGED <<args, toolRuns, fetched, world>>
    /\ UNCHANGED <<selectVars, punctVars, srtVars, wrapVars>>

\* lines 651-667: ffmpeg burns the subtitles into the clip
Burn(p) ==
    /\ pc[p] = "burn"
    /\ \E outcome \in Outcomes :
         Exec(p, "ffmpeg-burn", finalPath,
              File(p, <<IF Exists(clipPath) THEN disk.files[clipPath].by ELSE 0,
                        IF Exists(srtPath) THEN disk.files[srtPath].by ELSE 0>>),
              outcome, "checkFinal")
    /\ UNCHANGED <<args, local, fetched, world>>
    /\ UNCHANGED <<selectVars, punctVars, srtVars, wrapVars>>

\* lines 669-699: the final clip is looked for and the result returned
CheckFinal(p) ==
    /\ pc[p] = "checkFinal"
    /\ IF ~Exists(finalPath)
       THEN Fail(p, "Final clip generation failed: ", finalPath)
       ELSE /\ pc' = [pc EXCEPT ![p] = "done"]
            /\ result' = [result EXCEPT ![p] =
                 [ok |-> TRUE, success |-> TRUE,
                  clipStartTime |-> local[p].selection.startTime,
                  clipEndTime |-> local[p].selection.endTime,
                  segmentCount |-> Len(local[p].selection.segments),
                  keywords |-> local[p].keywords,
                  timeScale |-> local[p].timeScale]]
    /\ UNCHANGED <<args, local, disk, toolRuns, created, fetched, world>>
    /\ UNCHANGED <<selectVars, punctVars, srtVars, wrapVars>>

\* one invocation, in a directory that an earlier run may have used
InitPipeline ==
    /\ \E a \in ArgSets :
         args = [p \in Procs |-> IF p = 1 THEN a
                                 ELSE [boardId |-> FALSE, fileMetaId |-> FALSE,
                                       highlightKeywords |-> <<>>]]
    /\ pc = [p \in Procs |-> IF p = 1 THEN "start" ELSE "idle"]
    /\ local = [p \in Procs |-> InitLocal]
    /\ result = [p \in Procs |-> None]
    /\ disk \in Disks
    /\ toolRuns = [p \in Procs |-> NoRuns]
    /\ created = [p \in Procs |-> {}]
    /\ fetched = [p \in Procs |-> <<>>]
    /\ world = "any"
    /\ IdleSelect /\ IdlePunct /\ IdleSrt /\ IdleWrap

NextPipeline ==
    \E p \in Procs :
        \/ CheckArgs(p)
        \/ FetchBoard(p)
        \/ FetchKeywords(p)
        \/ FetchScript(p)
        \/ FetchPage(p)
        \/ CheckCache(p)
        \/ RunYtDlp(p)
        \/ CheckVideo(p)
        \/ Probe(p)
        \/ CutClip(p)
        \/ CheckClip(p)
        \/ WriteSrt(p)
        \/ Burn(p)
        \/ CheckFinal(p)

SpecPipeline == InitPipeline /\ [][NextPipeline]_vars

\* two invocations in separate processes, given the same output directory
\* and a fileMetaId and keywords of their own, with dependable collaborators
InitConcurrent ==
    /\ args = [p \in Procs |-> [boardId |-> FALSE, fileMetaId |-> TRUE,
                                 highlightKeywords |-> <<Keyword>>]]
    /\ pc = [p \in Procs |-> "start"]
    /\ local = [p \in Procs |-> InitLocal]
    /\ result = [p \in Procs |-> None]
    /\ disk \in { EmptyDisk, DiskWith({videoPath}) }
    /\ toolRuns = [p \in Procs |-> NoRuns]
    /\ created = [p \in Procs |-> {}]
    /\ fetched = [p \in Procs |-> <<>>]
    /\ world = "dependable"
    /\ IdleSelect /\ IdlePunct /\ IdleSrt /\ IdleWrap

NextConcurrent ==
    \E p \in Procs :
        \/ CheckArgs(p)
        \/ FetchScript(p)
        \/ CheckCache(p)
        \/ RunYtDlp(p)
        \/ CheckVideo(p)
        \/ Probe(p)
        \/ CutClip(p)
        \/ CheckClip(p)
        \/ WriteSrt(p)
        \/ Burn(p)
        \/ CheckFinal(p)

SpecConcurrent == InitConcurrent /\ [][NextConcurrent]_vars

\* one invocation on a transcript in milliseconds, whose medium may have any
\* of the durations; the tools may fail
InitMilliseconds ==
    /\ args = [p \in Procs |-> [boardId |-> FALSE, fileMetaId |-> p = 1,
                                 highlightKeywords |-> <<Keyword>>]]
    /\ pc = [p \in Procs |-> IF p = 1 THEN "start" ELSE "idle"]
    /\ local = [p \in Procs |-> InitLocal]
    /\ result = [p \in Procs |-> None]
    /\ disk \in Disks
    /\ toolRuns = [p \in Procs |-> NoRuns]
    /\ created = [p \in Procs |-> {}]
    /\ fetched = [p \in Procs |-> <<>>]
    /\ world = "milliseconds"
    /\ IdleSelect /\ IdlePunct /\ IdleSrt /\ IdleWrap

SpecMilliseconds == InitMilliseconds /\ [][NextConcurrent]_vars

\* the awaits of a handler in which the burn-in were awaited as well
AwaitsWithBurn == {"board", "keywords", "script", "pages", "burn"}

\* the awaits of the handler, lines 491-567: where an invocation stands
\* while the fetch it awaits is under way
Awaits == {"board", "keywords", "script", "pages"}

\* an invocation that is not running: not begun, at an await, or ended
Suspended(at) == at \in {"idle", "start", "done", "failed"} \cup Awaits

\* every invocation but p is suspended
Alone(p) == \A q \in Procs \ {p} : Suspended(pc[q])

\* two invocations in one server process: the handler of one runs from an
\* await to the next await, or to its end, before the other runs
NextServer ==
    \E p \in Procs :
        \/ Alone(p) /\ CheckArgs(p)
        \/ Alone(p) /\ FetchScript(p)
        \/ Alone(p) /\ CheckCache(p)
        \/ Alone(p) /\ RunYtDlp(p)
        \/ Alone(p) /\ CheckVideo(p)
        \/ Alone(p) /\ Probe(p)
        \/ Alone(p) /\ CutClip(p)
        \/ Alone(p) /\ CheckClip(p)
        \/ Alone(p) /\ WriteSrt(p)
        \/ Alone(p) /\ Burn(p)
        \/ Alone(p) /\ CheckFinal(p)

SpecServer == InitConcurrent /\ [][NextServer]_vars

-----------------------------------------------------------------------------
(* Token collection: karaoke.ts *)

\* lines 18-23: the test of a word unit
IsWordUnit(typedNode) ==
    /\ Get(typedNode, "type").t = "string"
    /\ Get(typedNode, "type").chars = <<"karaoke">>
    /\ Get(typedNode, "text").t = "string"
    /\ Get(typedNode, "s").t = "number"
    /\ Get(typedNode, "e").t = "number"

\* lines 7-34: the tokens after the call, given the tokens before it
RECURSIVE collectKaraokeTokens(_, _)
RECURSIVE CollectEach(_, _)
collectKaraokeTokens(n, tokens) ==
    IF Falsy(n) THEN tokens
    ELSE IF n.t = "array" THEN CollectEach(n.elements, tokens)
    ELSE IF n.t # "object" THEN tokens
    ELSE LET pushed == IF IsWordUnit(n)
                       THEN Append(tokens, [text |-> Get(n, "text").chars,
                                            startTime |-> Get(n, "s").num,
                                            endTime |-> Get(n, "e").num])
                       ELSE tokens
         IN IF ~Falsy(Get(n, "children"))
            THEN collectKaraokeTokens(Get(n, "children"), pushed)
            ELSE pushed

\* node.forEach((child) => collectKaraokeTokens(child, tokens))
CollectEach(elements, tokens) ==
    IF elements = <<>> THEN tokens
    ELSE CollectEach(Tail(elements), collectKaraokeTokens(Head(elements), tokens))

\* the nodes handed to collectKaraokeTokens: leaves, and nodes around a list
\* of leaves
Word(text) == KaraokeNode(JStr(<<text>>), JNum(0), JNum(1))

LeafNodes ==
    { Word("a"), Word("b"),
      KaraokeNode(JNum(5), JNum(0), JNum(1)),
      KaraokeNode(JStr(<<"a">>), Undefined, JNum(1)),
      JObj([type |-> JStr(<<"text">>), text |-> JStr(<<"a">>), s |-> JNum(0), e |-> JNum(1)]),
      JNull, JNum(5) }

NodesAround(leaves) ==
    { JArr(leaves),
      JObj([children |-> JArr(leaves)]),
      JObj([other |-> JArr(leaves)]),
      JObj([children |-> IF leaves = <<>> THEN JStr(<<"a">>) ELSE leaves[1]]),
      JObj([type |-> JStr(<<"karaoke">>), text |-> JStr(<<"c">>), s |-> JNum(0),
            e |-> JNum(1), children |-> JArr(leaves)]),
      JArr(<< JObj([type |-> JStr(<<"paragraph">>), children |-> JArr(leaves)]),
              Word("c") >>) }

InitCollect ==
    /\ \E n \in 0..MaxNodes : \E leaves \in [1..n -> LeafNodes] :
            node \in NodesAround(leaves)
    /\ collected = None
    /\ script = [paragraphs |-> <<>>]
    /\ punctSegments = None
    /\ karaokeSegments = None
    /\ paragraphSegments = None
    /\ IdleSelect /\ IdleSrt /\ IdleWrap /\ IdlePipe

\* const tokens = []; collectKaraokeTokens(node, tokens)
CollectTokens ==
    /\ collected = None
    /\ collected' = Returned(collectKaraokeTokens(node, <<>>))
    /\ UNCHANGED <<script, punctSegments, karaokeSegments, paragraphSegments, node>>
    /\ UNCHANGED <<selectVars, srtVars, wrapVars, pipeVars>>

NextCollect == CollectTokens

SpecCollect == InitCollect /\ [][NextCollect]_vars

-----------------------------------------------------------------------------
(* Properties of the window selector *)

Budget == targetDurationSeconds(targetDurationMinutes)

Span(w) == w.endTime - w.startTime

InRange(w) == w.segments = SubSeq(segments, w.first, w.last)

HoldsMidpoint(w) == w.first <= Midpoint(segments) /\ Midpoint(segments) <= w.last

\* C1: on the primary path (some segment scores above zero) the window spans
\* at most the budget, endTime - startTime <= targetDurationMinutes * 60,
\* unless it is the seed alone and the seed is longer than the budget.
C1_DurationBudget ==
    (window # None /\ window.path = "primary") =>
        \/ Span(window) <= Budget
        \/ Len(window.segments) = 1 /\ Duration(segments[window.seed]) > Budget

\* C2: part_004's fallback (every score zero, n >= 1) returns a non-empty
\* contiguous window that holds the segment at floor(n/2) and spans at most
\* the budget whenever the midpoint segment alone fits it; on ten one-second
\* segments with a two-second budget it is neither empty nor everything.
C2_MidpointFallback ==
    (window # None /\ window.path = "fallback") =>
        /\ Len(window.segments) >= 1
        /\ InRange(window)
        /\ HoldsMidpoint(window)
        /\ (Duration(segments[Midpoint(segments)]) <= Budget => Span(window) <= Budget)
        /\ (Len(segments) = 10 => Len(window.segments) \in 1..9)

\* C3: video.ts's fallback (slice, then trim) returns a contiguous window
\* that holds the segment at floor(n/2) and spans at most the budget.
C3_SliceFallback ==
    (windowSlice # None /\ windowSlice.path = "fallback") =>
        /\ InRange(windowSlice)
        /\ HoldsMidpoint(windowSlice)
        /\ Span(windowSlice) <= Budget

C10_RangeAroundSeed ==
    (window # None /\ window.path = "primary") =>
        /\ 1 <= window.first /\ window.first <= window.seed
        /\ window.seed <= window.last /\ window.last <= Len(segments)
        /\ InRange(window)
        /\ window.startTime = segments[window.first].startTime
        /\ window.endTime = segments[window.last].endTime

C10_Witness ==
    /\ window # None /\ window.path = "primary"
    /\ Len(segments) >= 2
    /\ Duration(segments[window.seed]) > Budget
    /\ window.segments = <<segments[window.seed]>>

\* the scored entry of segment i, and the comparison of two densities
ScoredAt(i) == scoredSegments(segments, keywords)[i]

DensityLess(d1, d2) == d1.num * d2.den < d2.num * d1.den

DensityEqual(d1, d2) == d1.num * d2.den = d2.num * d1.den

\* C11: on the primary path the seed is the first segment of the order
\* (density descending, score descending, index ascending): no segment has a
\* higher density, none of equal density a higher score, and none equal in
\* both a lower index.
FirstInOrder(seed, other) ==
    /\ ~DensityLess(seed.density, other.density)
    /\ DensityEqual(seed.density, other.density) => other.score <= seed.score
    /\ (DensityEqual(seed.density, other.density) /\ other.score = seed.score)
          => seed.index <= other.index

FirstOfAll(seed) == \A i \in 1..Len(segments) : FirstInOrder(seed, ScoredAt(i))

C11_SeedFirstInOrder ==
    (window # None /\ window.path = "primary") => FirstOfAll(ScoredAt(window.seed))

\* a primary-path seed that won on the index alone, over a later segment equal
\* in density and score, with a segment of lower density in front of it
C11_Witness ==
    /\ window # None /\ window.path = "primary"
    /\ window.seed > 1
    /\ DensityLess(ScoredAt(1).density, ScoredAt(window.seed).density)
    /\ \E i \in (window.seed + 1)..Len(segments) :
          /\ DensityEqual(ScoredAt(i).density, ScoredAt(window.seed).density)
          /\ ScoredAt(i).score = ScoredAt(window.seed).score

\* Simple case folding on the model's alphabet, and the number of places of
\* text where keyword stands, compared without regard to case
Fold(c) == IF c \in {"A"} THEN "a" ELSE IF c \in {"K", "u212A"} THEN "k" ELSE c

OccursAt(text, keyword, p) ==
    /\ p + Len(keyword) - 1 <= Len(text)
    /\ \A j \in 1..Len(keyword) : Fold(text[p + j - 1]) = Fold(keyword[j])

Occurrences(text, keyword) ==
    Cardinality({ p \in 1..(Len(text) + 1) : OccursAt(text, keyword, p) })

OccurrencesOfAll(text, kws) ==
    SumSeq([k \in 1..Len(kws) |-> Occurrences(text, kws[k])])

\* C13: the score of a segment is the sum, over the entries of the keyword
\* list, of the number of case-insensitive occurrences of the keyword as a
\* literal substring of the text; its density is score / duration when the
\* duration is positive and 0 otherwise.
C13_ScoreCountsOccurrences ==
    calls >= 1 =>
        \A i \in 1..Len(segments) :
            /\ ScoredAt(i).score = OccurrencesOfAll(segments[i].text, keywords)
            /\ ScoredAt(i).density =
                  IF Duration(segments[i]) > 0
                  THEN [num |-> OccurrencesOfAll(segments[i].text, keywords),
                        den |-> Duration(segments[i])]
                  ELSE [num |-> 0, den |-> 1]

\* C12 as stated: on the primary path no segment has a keyword score strictly
\* greater than the seed's score.
C12_SeedHasBestScore ==
    (window # None /\ window.path = "primary") =>
        \A i \in 1..Len(segments) : ScoredAt(i).score <= ScoredAt(window.seed).score

\* C12 amended: on the primary path no segment has a keyword density strictly
\* greater than the seed's, and every segment with a score strictly greater
\* than the seed's has a strictly lower density than the seed.
BestDensity(seed, other) ==
    /\ ~DensityLess(seed.density, other.density)
    /\ other.score > seed.score => DensityLess(other.density, seed.density)

BestDensityOfAll(seed) == \A i \in 1..Len(segments) : BestDensity(seed, ScoredAt(i))

C12_SeedHasBestDensity ==
    (window # None /\ window.path = "primary") => BestDensityOfAll(ScoredAt(window.seed))

\* a primary-path seed next to a segment of strictly greater score
C12_Witness ==
    /\ window # None /\ window.path = "primary"
    /\ \E i \in 1..Len(segments) : ScoredAt(i).score > ScoredAt(window.seed).score

\* every segment scores 0 against the keywords
AllScoresZero == \A i \in 1..Len(segments) : ScoredAt(i).score = 0

FallbackIffNoScore(w, noScore) ==
    w # None =>
        IF Len(segments) = 0 THEN w.path = "empty"
        ELSE /\ w.path = "fallback" <=> noScore
             /\ w.path = "primary" <=> ~noScore

\* C21: on a transcript that is not empty either selector (part_004,
\* video.ts) takes the fallback path exactly when every segment scores 0,
\* and the primary path exactly when some segment scores above 0, whatever
\* the durations of the scoring segments (zero, negative); on the empty
\* transcript it takes neither
C21_FallbackIffNoScore ==
    /\ FallbackIffNoScore(window, AllScoresZero)
    /\ FallbackIffNoScore(windowSlice, AllScoresZero)

\* both selectors took the primary path on a seed that ends before it starts,
\* with a segment of score 0 and positive duration in the transcript
C21_Witness ==
    /\ window # None /\ windowSlice # None
    /\ window.path = "primary" /\ windowSlice.path = "primary"
    /\ Duration(segments[window.seed]) < 0
    /\ \E i \in 1..Len(segments) :
          ScoredAt(i).score = 0 /\ Duration(segments[i]) > 0

\* C20: when the growth loop has stopped neither side can extend: on each
\* side the transcript boundary is reached, or the next segment would take the
\* accumulated duration over the budget (a neighbour of zero duration
\* included, when the accumulated duration equals the budget).
C20_NeitherSideCanExtend ==
    (window # None /\ window.path = "primary") =>
        /\ \/ window.first = 1
           \/ window.total + Duration(segments[window.first - 1]) > Budget
        /\ \/ window.last = Len(segments)
           \/ window.total + Duration(segments[window.last + 1]) > Budget

-----------------------------------------------------------------------------
(* Properties of the segment builders *)

SegmentTexts(list) == Concat([i \in 1..Len(list) |-> list[i].text])

NotSpace(c) == ~IsSpace(c)

WithoutSpaces(text) == SelectSeq(text, NotSpace)

-----------------------------------------------------------------------------
(* Properties of the subtitle synthesizer *)

CeilDiv(a, b) == (a + b - 1) \div b

PositiveSpan(segment) ==
    Max(0, segment.endTime - clipStartTime) > Max(0, segment.startTime - clipStartTime)

CountPositiveSpan(list) == Cardinality({ i \in 1..Len(list) : PositiveSpan(list[i]) })

\* timestamps as HH:MM:SS,mmm order them
TimestampLeq(a, b) ==
    \/ a = b
    \/ \E k \in 1..4 : a[k] < b[k] /\ \A j \in 1..(k - 1) : a[j] = b[j]

\* C5: with maxChars > 0 every segment splitSegmentsByMaxChars returns has a
\* text of at most maxChars characters, and an input segment whose text is at
\* most maxChars long is passed on as it is (text, times and tokens).
C5_WithinMaxChars ==
    constrainedSegments # None =>
        LET out == constrainedSegments.list
            short == { i \in 1..Len(selectedSegments) :
                         Len(selectedSegments[i].text) <= maxSegmentChars }
        IN /\ \A j \in 1..Len(out) : Len(out[j].text) <= maxSegmentChars
           /\ \A i \in short : \E j \in 1..Len(out) : out[j] = selectedSegments[i]
           /\ (short = 1..Len(selectedSegments) => out = selectedSegments)

C5_Witness ==
    /\ constrainedSegments # None
    /\ Len(selectedSegments) = 2
    /\ Len(selectedSegments[1].text) > maxSegmentChars
    /\ Len(selectedSegments[2].text) <= maxSegmentChars
    /\ Len(constrainedSegments.list) >= 4

\* C6 as stated: a selected segment whose text is L > maxLineLength long is
\* rendered as at least ceil(L / maxLineLength) cues (a window of that one
\* segment: the SRT text holds at least that many cues).
C6_AtLeastCeilCues ==
    (srtContent # None /\ Len(selectedSegments) = 1
        /\ Len(selectedSegments[1].text) > maxSegmentChars) =>
        Len(srtContent.list) >= CeilDiv(Len(selectedSegments[1].text), maxSegmentChars)

\* C6, amended: a selected segment whose text is longer than maxLineLength
\* is resplit into at least ceil(N / maxLineLength) segments, N the number of
\* its characters that are not whitespace, and the SRT text holds one cue for
\* each resplit segment whose clip-relative end is after its clip-relative
\* start, and no other cue.
C6_CuesOfResplitSegments ==
    srtContent # None =>
        /\ (Len(selectedSegments) = 1
                /\ Len(selectedSegments[1].text) > maxSegmentChars) =>
               Len(constrainedSegments.list) >=
                   CeilDiv(Len(WithoutSpaces(selectedSegments[1].text)), maxSegmentChars)
        /\ Len(srtContent.list) = CountPositiveSpan(constrainedSegments.list)

C6_Witness ==
    /\ srtContent # None
    /\ Len(selectedSegments) = 1
    /\ Len(selectedSegments[1].text) > maxSegmentChars
    /\ Len(srtContent.list) >= 1
    /\ Len(srtContent.list) < CeilDiv(Len(selectedSegments[1].text), maxSegmentChars)
    /\ Len(srtContent.list) < Len(constrainedSegments.list)

\* C7: every line wrapSubtitleText renders is at most maxLineLength long
\* (maxLineLength >= 1); a text that is one word longer than maxLineLength is
\* cut into consecutive chunks, one a line; and the lines hold the characters
\* of the text that are not whitespace, in order.
C7_LinesWithinMax ==
    wrapped # None =>
        LET lines == wrapped.list
            normalized == Trim(CollapseSpaces(subtitleText))
        IN /\ \A i \in 1..Len(lines) : Len(lines[i]) >= 1 /\ Len(lines[i]) <= maxLineLength
           /\ WithoutSpaces(Concat(lines)) = WithoutSpaces(subtitleText)
           /\ (WithoutSpaces(normalized) = normalized /\ Len(normalized) > maxLineLength) =>
                  /\ Concat(lines) = normalized
                  /\ Len(lines) = CeilDiv(Len(normalized), maxLineLength)

C7_Witness ==
    /\ wrapped # None
    /\ maxLineLength = 2
    /\ subtitleText = <<"a", "a", "a", "\t", " ", "a">>
    /\ wrapped.list = << <<"a", "a">>, <<"a">>, <<"a">> >>

\* C8 as stated: in the SRT text of generateSrt every cue has clip-relative
\* times 0 <= start <= end, a segment whose clamped end is not after its
\* clamped start yields no cue, and the cue indices are 1, 2, ..., k.
CuesWellFormed(cues, source) ==
    /\ \A i \in 1..Len(cues) :
          /\ cues[i].index = i
          /\ 0 <= cues[i].adjustedStart
          /\ cues[i].adjustedStart < cues[i].adjustedEnd
          /\ TimestampLeq(cues[i].start, cues[i].end)
    /\ Len(cues) = CountPositiveSpan(source)

C8_CueTimesAndIndices ==
    /\ srtContent # None => CuesWellFormed(srtContent.list, constrainedSegments.list)
    /\ srtContentPlain # None => CuesWellFormed(srtContentPlain.list, selectedSegments)

\* part_004's generateSrt alone meets C8
CuesOfPart004WellFormed ==
    srtContent # None => CuesWellFormed(srtContent.list, constrainedSegments.list)

-----------------------------------------------------------------------------
(* Properties of the clip pipeline *)

\* the errors of the input: no transcript source, none resolvable, no segments
InputErrors ==
    { "Provide boardId or fileMetaId to fetch transcript.",
      "Could not determine fileMetaId from boardId.",
      "No segments found in script." }

\* C14: an invocation that has failed with an input error has run no
\* external tool and has created nothing on disk, the output directory
\* included
C14_NoPartialOutput ==
    \A p \in Procs :
        (pc[p] = "failed" /\ result[p].message \in InputErrors)
            => (toolRuns[p] = NoRuns /\ created[p] = {})

\* the steps behind the test of the video, and behind the test of the clip
AfterVideoCheck == { "ffprobe", "trim", "checkClip", "srt", "burn", "checkFinal", "done" }

AfterClipCheck == { "srt", "burn", "checkFinal", "done" }

\* the three tests of an output file: where, of which file, with which message
OutputChecks ==
    { [at |-> "checkVideo", path |-> videoPath, message |-> "Video download failed: "],
      [at |-> "checkClip", path |-> clipPath, message |-> "Clip generation failed: "],
      [at |-> "checkFinal", path |-> finalPath, message |-> "Final clip generation failed: "] }

C15_State ==
    \A p \in Procs :
        /\ \A tool \in Tools : toolRuns[p][tool] <= 1
        /\ pc[p] \in AfterVideoCheck => disk.files[videoPath] # None
        /\ pc[p] \in AfterClipCheck => disk.files[clipPath] # None
        /\ pc[p] = "done" => disk.files[finalPath] # None
        /\ pc[p] = "failed" =>
             /\ ~result[p].ok
             /\ \A c \in OutputChecks :
                  result[p].message = c.message =>
                      /\ result[p].detail = c.path
                      /\ disk.files[c.path] = None
             /\ result[p].message = "Video download failed: " =>
                  /\ toolRuns[p]["ffprobe"] = 0
                  /\ toolRuns[p]["ffmpeg-trim"] = 0
                  /\ toolRuns[p]["ffmpeg-burn"] = 0
                  /\ created[p] \cap { clipPath, srtPath, finalPath } = {}
             /\ result[p].message = "Clip generation failed: " =>
                  /\ toolRuns[p]["ffmpeg-burn"] = 0
                  /\ created[p] \cap { srtPath, finalPath } = {}

C15_Step ==
    \A p \in Procs : \A c \in OutputChecks :
        (pc[p] = c.at /\ disk.files[c.path] = None /\ pc'[p] # pc[p])
            => /\ pc'[p] = "failed"
               /\ result'[p] = [ok |-> FALSE, message |-> c.message, detail |-> c.path]
               /\ toolRuns' = toolRuns /\ disk' = disk

\* C15: when the file a step should have written (video.mp4 after the
\* download, clip_no_subs.mp4 after the trim, clip_with_subs.mp4 after the
\* burn-in) is not there once the tool has returned, the invocation fails
\* with the message of that step and the missing path, no later step has
\* run, no success is returned, and no tool has run more than once
C15_MissingOutputStops == []C15_State /\ [][C15_Step]_vars

\* the trim returned without a clip, and the invocation failed on it
C15_Witness ==
    \E p \in Procs :
        /\ pc[p] = "failed"
        /\ result[p].message = "Clip generation failed: "
        /\ toolRuns[p]["ffmpeg-trim"] = 1
        /\ disk.files[clipPath] = None

\* C16, as claimed: every fetch that was answered with a non-success status
\* is the last fetch of its invocation, which has failed with the status
\* text of that answer
C16_AnyFailedFetchAborts ==
    \A p \in Procs : \A i \in 1..Len(fetched[p]) :
        ~fetched[p][i].ok =>
            /\ i = Len(fetched[p])
            /\ pc[p] = "failed"
            /\ result[p].detail = fetched[p][i].statusText

\* C16, amended: a non-success answer to the fetch of the board, of the
\* first script page or of a further page is the last fetch of its
\* invocation, which has failed with the status text of that answer; after
\* a non-success answer to the fetch of the keywords the invocation goes on
\* with the default keywords
C16_FailedFetchAbortsButKeywords ==
    \A p \in Procs : \A i \in 1..Len(fetched[p]) :
        ~fetched[p][i].ok =>
            IF fetched[p][i].what = "keywords"
            THEN local[p].keywords = DefaultKeywords
            ELSE /\ i = Len(fetched[p])
                 /\ pc[p] = "failed"
                 /\ ~result[p].ok
                 /\ result[p].message \in { "Failed to fetch board: ",
                                            "Failed to fetch script: ",
                                            "Failed to fetch script page: " }
                 /\ result[p].detail = fetched[p][i].statusText

\* the keywords were refused, the first page came, the second was refused
C16_Witness ==
    \E p \in Procs :
        /\ Len(fetched[p]) = 3
        /\ fetched[p][1].what = "keywords" /\ ~fetched[p][1].ok
        /\ fetched[p][2].what = "script" /\ fetched[p][2].ok
        /\ fetched[p][3].what = "page" /\ ~fetched[p][3].ok
        /\ pc[p] = "failed"
        /\ result[p].detail = fetched[p][3].statusText

\* the answers of an invocation that carried a page of the script
ScriptAnswers(p) ==
    { i \in 1..Len(fetched[p]) : fetched[p][i].what \in { "script", "page" } }

\* C17: when every page of the script has been fetched and every item was
\* malformed or undecodable, the invocation has failed with "No segments
\* found in script." and with nothing else
C17_MalformedYieldsNoSegments ==
    \A p \in Procs :
        ( /\ ScriptAnswers(p) # {}
          /\ pc[p] \notin { "script", "pages" }
          /\ \A i \in ScriptAnswers(p) :
                fetched[p][i].ok /\ fetched[p][i].item \in MalformedItems )
            => /\ pc[p] = "failed"
               /\ result[p].message = "No segments found in script."

\* C18: the factor is 0.001 exactly when the probed duration is finite and
\* some segment of the transcript ends after both ten times that duration
\* and 10000, and 1 otherwise; the result reports the factor
C18_ScaleFactor ==
    \A p \in Procs :
        /\ local[p].timeScale # None =>
             LET mediaDuration == local[p].videoDuration
                 segs == local[p].segments
                 exceeds == /\ mediaDuration.finite
                            /\ \E i \in 1..Len(segs) :
                                 /\ segs[i].endTime > mediaDuration.v * 10
                                 /\ segs[i].endTime > 10000 * UnitsPerSecond
             IN local[p].timeScale = IF exceeds THEN [num |-> 1, den |-> 1000]
                                     ELSE [num |-> 1, den |-> 1]
        /\ pc[p] = "done" => result[p].timeScale = local[p].timeScale

\* a transcript ending after 20001 on a medium of 2000 seconds
C18_Witness ==
    \E p \in Procs :
        /\ local[p].timeScale = [num |-> 1, den |-> 1000]
        /\ local[p].videoDuration = [finite |-> TRUE, v |-> 2000 * UnitsPerSecond]

\* a transcript ending at 10001 on a medium of 2000 seconds is left alone
C18_WitnessFloorPassed ==
    \E p \in Procs :
        /\ local[p].timeScale = [num |-> 1, den |-> 1]
        /\ local[p].videoDuration = [finite |-> TRUE, v |-> 2000 * UnitsPerSecond]
        /\ \E i \in 1..Len(local[p].segments) :
             local[p].segments[i].endTime > 10000 * UnitsPerSecond

C19_State ==
    \A p \in Procs :
        pc[p] = "done" => /\ result[p].success
                          /\ disk.files[finalPath] # None

C19_Step ==
    \A p \in Procs :
        /\ (pc[p] = "trim" /\ pc'[p] = "checkClip")
              => disk'.files[clipPath] = File(p, <<disk.files[videoPath].by>>)
        /\ (pc[p] = "srt" /\ pc'[p] = "burn")
              => disk'.files[srtPath] = File(p, <<>>)
        /\ (pc[p] = "burn" /\ pc'[p] = "checkFinal")
              => disk'.files[finalPath] =
                     File(p, <<disk.files[clipPath].by, disk.files[srtPath].by>>)
        /\ (pc[p] = "checkFinal" /\ pc'[p] # pc[p]) => pc'[p] = "done"

\* C19: of two invocations in one output directory, each trim and each
\* write of the subtitles replaces the file of that name whoever wrote it,
\* the burn-in reads the files that are there when it runs, and an
\* invocation returns success as soon as clip_with_subs.mp4 exists
C19_SharedFileNames == []C19_State /\ [][C19_Step]_vars

\* an invocation has returned success with a clip_with_subs.mp4 of its own
\* that was made from the clip or the subtitles of the other invocation
C19_Witness ==
    \E p \in Procs : \E q \in Procs \ {p} :
        /\ pc[p] = "done" /\ result[p].success
        /\ disk.files[finalPath] # None
        /\ disk.files[finalPath].by = p
        /\ q \in { disk.files[finalPath].inputs[1], disk.files[finalPath].inputs[2] }

-----------------------------------------------------------------------------
(* Further properties of the segment builders *)

\* a segment with tokens that starts with its earliest token and ends with
\* its latest
SpansItsTokens(segment) ==
    /\ Len(segment.tokens) > 0
    /\ \A j \in 1..Len(segment.tokens) :
          /\ segment.startTime <= segment.tokens[j].startTime
          /\ segment.tokens[j].endTime <= segment.endTime
    /\ \E j \in 1..Len(segment.tokens) : segment.startTime = segment.tokens[j].startTime
    /\ \E j \in 1..Len(segment.tokens) : segment.endTime = segment.tokens[j].endTime
    /\ segment.startTime <= segment.endTime

AllSpanTheirTokens(returned) ==
    returned # None =>
        \A i \in 1..Len(returned.list) : SpansItsTokens(returned.list[i])

\* C22: every segment of the punctuation-scoped builder of part_004 and of
\* the paragraph-scoped builder of video.ts has a token, starts at the least
\* startTime and ends at the greatest endTime of its tokens, and so does not
\* end before it starts, whatever the order of the tokens' times
C22_SegmentsSpanTokens ==
    /\ AllSpanTheirTokens(punctSegments)
    /\ AllSpanTheirTokens(paragraphSegments)

NoneEmpty(returned, withTokens) ==
    returned # None =>
        \A i \in 1..Len(returned.list) :
            /\ Len(Trim(returned.list[i].text)) > 0
            /\ withTokens => Len(returned.list[i].tokens) > 0

\* C23: every segment returned by part_004's extractSegmentsFromScript, by
\* karaoke.ts's splitTokensByPunctuation and by video.ts's
\* extractSegmentsFromScript has a text that is not empty once trimmed, and,
\* where segments carry their tokens (part_004, video.ts), at least one token
C23_NoEmptySegment ==
    /\ NoneEmpty(punctSegments, TRUE)
    /\ NoneEmpty(karaokeSegments, FALSE)
    /\ NoneEmpty(paragraphSegments, TRUE)

\* a text with one of the six closing characters in it
HasTerminal(text) ==
    \E i \in 1..Len(text) : text[i] \in { ".", "!", "?", "u3002", "uFF01", "uFF1F" }

\* the tokens cut after every token that has a closing character, and only
\* there: the runs in order, the last one being what is left at the end
RECURSIVE RunsOf(_, _)
RunsOf(toks, run) ==
    IF toks = <<>> THEN (IF run = <<>> THEN <<>> ELSE <<run>>)
    ELSE IF HasTerminal(Head(toks).text)
         THEN <<Append(run, Head(toks))>> \o RunsOf(Tail(toks), <<>>)
         ELSE RunsOf(Tail(toks), Append(run, Head(toks)))

NotBlank(text) == Len(text) > 0

RunTexts(toks) ==
    LET runs == RunsOf(toks, <<>>)
    IN SelectSeq([r \in 1..Len(runs) |-> Trim(TokenTexts(runs[r]))], NotBlank)

ClosedAtTerminals(returned) ==
    returned # None =>
        [i \in 1..Len(returned.list) |-> returned.list[i].text]
            = RunTexts(ScriptTokens(script))

\* C24: the segments of part_004's extractSegmentsFromScript and of
\* karaoke.ts's splitTokensByPunctuation are the runs of tokens cut after
\* every token whose text has one of . ! ? U+3002 U+FF01 U+FF1F and nowhere
\* else
C24_ClosedAtTerminalPunctuation ==
    /\ ClosedAtTerminals(punctSegments)
    /\ ClosedAtTerminals(karaokeSegments)

-----------------------------------------------------------------------------
(* Properties of the token collection *)

\* an object with the mark of a word unit, a text and two numeric times
WordUnit(n) ==
    /\ n.t = "object"
    /\ { "type", "text", "s", "e" } \subseteq DOMAIN n.fields
    /\ n.fields["type"] = JStr(<<"karaoke">>)
    /\ n.fields["text"].t = "string"
    /\ n.fields["s"].t = "number" /\ n.fields["e"].t = "number"

\* the tokens of a node in document order, the children of a word unit left
\* out
RECURSIVE TokensInOrder(_)
TokensInOrder(n) ==
    IF n.t = "array"
    THEN Concat([i \in 1..Len(n.elements) |-> TokensInOrder(n.elements[i])])
    ELSE IF n.t # "object" THEN <<>>
    ELSE IF WordUnit(n)
    THEN << [text |-> n.fields["text"].chars, startTime |-> n.fields["s"].num,
             endTime |-> n.fields["e"].num] >>
    ELSE IF "children" \in DOMAIN n.fields THEN TokensInOrder(n.fields["children"])
    ELSE <<>>

\* C26: collectKaraokeTokens returns, in document order, one token for every
\* object node that has type "karaoke", a string text and numeric s and e,
\* found by descending through arrays and through the children field of the
\* object nodes that are not word units themselves, and through nothing else
C26_TokensInDocumentOrder ==
    collected # None => collected.list = TokensInOrder(node)

-----------------------------------------------------------------------------
(* Further properties of the clip pipeline *)

\* times b that are the times a multiplied by the factor
Multiplied(time, factor, product) ==
    /\ (time * factor.num) % factor.den = 0
    /\ product = (time * factor.num) \div factor.den

TimesScaled(a, b, factor) ==
    /\ Multiplied(a.startTime, factor, b.startTime)
    /\ Multiplied(a.endTime, factor, b.endTime)

\* segments that are the given ones with every time multiplied by the factor
\* and nothing else changed
UniformlyScaled(segs, scaled, factor) ==
    /\ Len(scaled) = Len(segs)
    /\ \A i \in 1..Len(segs) :
          /\ scaled[i].text = segs[i].text
          /\ TimesScaled(segs[i], scaled[i], factor)
          /\ Len(scaled[i].tokens) = Len(segs[i].tokens)
          /\ \A j \in 1..Len(segs[i].tokens) :
                /\ scaled[i].tokens[j].text = segs[i].tokens[j].text
                /\ TimesScaled(segs[i].tokens[j], scaled[i].tokens[j], factor)

\* C25: once the factor is chosen, the segments handed to the selection are
\* the transcript's with every segment and token time multiplied by the
\* factor and with count, order, texts and token counts as they were (the
\* very same segments when the factor is 1); the selection is a run of those
\* segments; the trim is given the selection's start and length, the
\* subtitles its segments and its start, and the result reports its start
\* and end
C25_ScaledBeforeSelection ==
    \A p \in Procs :
        local[p].timeScale # None =>
            LET scaled == local[p].scaledSegmentsAll.list
                selection == local[p].selection
            IN /\ UniformlyScaled(local[p].segments, scaled, local[p].timeScale)
               /\ local[p].timeScale = [num |-> 1, den |-> 1] => scaled = local[p].segments
               /\ selection.segments = SubSeq(scaled, selection.first, selection.last)
               /\ Len(selection.segments) > 0 =>
                     /\ selection.startTime = scaled[selection.first].startTime
                     /\ selection.endTime = scaled[selection.last].endTime
               /\ local[p].trimArgs # None =>
                     local[p].trimArgs = [ss |-> selection.startTime,
                                          t |-> selection.endTime - selection.startTime]
               /\ local[p].srtArgs # None =>
                     local[p].srtArgs = [segments |-> selection.segments,
                                         clipStartTime |-> selection.startTime]
               /\ pc[p] = "done" =>
                     /\ result[p].clipStartTime = selection.startTime
                     /\ result[p].clipEndTime = selection.endTime
                     /\ result[p].segmentCount = Len(selection.segments)

\* an invocation has returned success on a transcript it scaled by 0.001
C25_Witness ==
    \E p \in Procs :
        /\ pc[p] = "done"
        /\ local[p].timeScale = [num |-> 1, den |-> 1000]
        /\ local[p].srtArgs # None
        /\ local[p].segments[1].endTime > local[p].scaledSegmentsAll.list[1].endTime


-----------------------------------------------------------------------------
(* Properties of wrapSubtitleText taken step by step *)

\* C27: SRT generation terminates for every subtitleMaxLineLength the
\* schema accepts, 0 and negative integers included: the call of
\* wrapSubtitleText that generateSrt makes for a cue, and the calls of
\* splitLongWord inside it, return after finitely many steps.
C27_WrapReturns == <>(wrapCall.at = "returned")

\* the same for the lengths from 1 on, where the step by step call returns
\* what wrapSubtitleText returns
WrapReturnsFromOne ==
    /\ maxLineLength >= 1 => <>(wrapCall.at = "returned")
    /\ [](maxLineLength >= 1 /\ wrapCall.at = "returned"
            => wrapped = Returned(wrapSubtitleText(subtitleText, maxLineLength)))

-----------------------------------------------------------------------------
(* Properties of two invocations in one server process *)

\* from the cached-video check (line 582) to the result or the error
MediaStage ==
    {"download", "yt-dlp", "checkVideo", "ffprobe", "trim", "checkClip", "srt",
     "burn", "checkFinal"}

\* nothing of invocation q changes in the step
Untouched(q) ==
    /\ pc'[q] = pc[q]
    /\ local'[q] = local[q]
    /\ result'[q] = result[q]
    /\ toolRuns'[q] = toolRuns[q]
    /\ created'[q] = created[q]
    /\ fetched'[q] = fetched[q]

C28_State ==
    \A p, q \in Procs :
        p # q => ~(pc[p] \in MediaStage /\ pc[q] \in MediaStage)

C28_Step ==
    \A p \in Procs :
        pc[p] \in MediaStage
            => /\ pc'[p] \in MediaStage \cup {"done", "failed"}
               /\ \A q \in Procs \ {p} : Untouched(q)

\* C28: in one server process the media stage of an invocation is atomic:
\* from the cached-video check to the result or the error no step of another
\* invocation's handler executes, no two invocations are in their media
\* stage together, and the stage is left only by returning or throwing,
\* because every await lies before the first external-tool call.
C28_MediaStageAtomic == []C28_State /\ [][C28_Step]_vars

\* one invocation is about to burn the subtitles in while the other stands
\* at the await of its script
C28_Witness == pc[1] = "burn" /\ pc[2] = "script"

-----------------------------------------------------------------------------
(* Properties of the files behind a success *)

\* the file at path was written by invocation p
WrittenBy(path, p) == disk.files[path] # None /\ disk.files[path].by = p

\* C29: when the pipeline returns a success, clip_no_subs.mp4 and
\* clip_with_subs.mp4 were both written by the trim and the burn-in of this
\* same invocation: a file of the same name left by an earlier run never
\* makes a step that produced nothing count as successful.
C29_SuccessFromOwnFiles ==
    \A p \in Procs :
        pc[p] = "done" => WrittenBy(clipPath, p) /\ WrittenBy(finalPath, p)

-----------------------------------------------------------------------------
(* Properties of the normalizer on a transcript in milliseconds *)

\* the transcript of invocation p ends at 1000 times the media duration
InMilliseconds(p) ==
    LET mediaDuration == local[p].videoDuration
        segs == local[p].segments
    IN /\ mediaDuration.finite
       /\ mediaDuration.v > 0
       /\ \A i \in 1..Len(segs) : segs[i].endTime <= 1000 * mediaDuration.v
       /\ \E i \in 1..Len(segs) : segs[i].endTime = 1000 * mediaDuration.v

\* the factor 0.001 was applied and the clip starts within the medium
Normalized(p) ==
    /\ local[p].timeScale = [num |-> 1, den |-> 1000]
    /\ Len(local[p].selection.segments) > 0
          => /\ 0 <= local[p].selection.startTime
             /\ local[p].selection.startTime <= local[p].videoDuration.v

\* C30 as stated: whenever the transcript is in milliseconds and the media
\* duration in seconds (the greatest endTime is 1000 times the media duration,
\* for any media duration above 0), the normalizer applies the factor 0.001
\* and the selected clip start lies within the media duration.
C30_MillisecondsDetected ==
    \A p \in Procs :
        local[p].timeScale # None /\ InMilliseconds(p) => Normalized(p)

\* C30, amended: the same for any media duration above 10 seconds; up to
\* 10 seconds the greatest endTime does not exceed the floor of 10000.
C30_MillisecondsDetectedAboveTenSeconds ==
    \A p \in Procs :
        /\ local[p].timeScale # None
        /\ InMilliseconds(p)
        /\ local[p].videoDuration.v > 10 * UnitsPerSecond
        => Normalized(p)

\* a transcript ending at 500000 on a medium of 500 seconds: the clip is
\* the second sentence and starts at 250 seconds
C30_Witness ==
    \E p \in Procs :
        /\ local[p].timeScale # None
        /\ InMilliseconds(p)
        /\ local[p].videoDuration.v = 500 * UnitsPerSecond
        /\ local[p].selection.startTime = 250 * UnitsPerSecond
====
